---------------------------- MODULE Spec2Model ----------------------------
(***************************************************************************)
(* Model of the NETCONF read path of Netopeer2 (src/server):               *)
(*   op_get_config.c  subtree-filter compiler, Subtree Builder, Local Tree *)
(*                    Projector and the <get>/<get-config> orchestrator    *)
(*   operations.c     value codec and the with-defaults decision           *)
(*   op_validate.c    <validate>                                           *)
(***************************************************************************)
EXTENDS Integers, Sequences, FiniteSets, TLC

VARIABLES
    (* filter compiler (opget_build_xpath_from_subtree_filter) *)
    cf_in,      \* the subtree filter forest handed to the compiler, and the failing allocation
    cf_ds,      \* the datastore content the compiled XPaths are evaluated against
    cf_out,     \* result of the compilation: rc, filters, the mutated forest
    (* tree assembly (opget_build_subtree_from_sysrepo, opget_build_tree_from_data) *)
    tb_ds,      \* datastore content seen by the sysrepo session
    tb_root,    \* the data tree under construction (*root)
    tb_calls,   \* the builder and projector calls made on tb_root so far
    (* with-defaults decision (op_dflt_data_inspect) *)
    wd_in,      \* the inspected value, its schema leaf, the mode and rpc_output
    wd_out,     \* the decision returned
    (* session level (op_get, op_validate) *)
    sessions,   \* struct np2_sessions: ds, opts, flags
    srs,        \* the sysrepo session behind sessions->srs: the datastore and options in effect
    nc_wd_dflt, \* the with-defaults basic mode the server advertises
    last,       \* what the last RPC did: its inputs, the backend calls it made, its reply
    (* worker threads serving the RPCs of one session *)
    workers,    \* per worker thread: the RPC it serves and its position in op_get
    rpc_lock,   \* the session's RPC mutex: the worker holding it, 0 when free
    trace,      \* the steps on the session state and the datastore handle, in the order taken
    (* value conversion (op_set_srval, op_get_srval) *)
    sv_in,      \* the tree node handed to op_set_srval, path, duplicate and the failing allocation
    sv_out      \* the sysrepo value produced, val_buf, and the string op_get_srval gives back

vars == <<cf_in, cf_ds, cf_out, tb_ds, tb_root, tb_calls, wd_in, wd_out,
          sessions, srs, nc_wd_dflt, last, workers, rpc_lock, trace, sv_in, sv_out>>

cf_vars == <<cf_in, cf_ds, cf_out>>
tb_vars == <<tb_ds, tb_root, tb_calls>>
wd_vars == <<wd_in, wd_out>>
op_vars == <<sessions, srs, nc_wd_dflt, last>>
mt_vars == <<workers, rpc_lock, trace>>
sv_vars == <<sv_in, sv_out>>

-----------------------------------------------------------------------------
(* C strings and pointers *)

NULL == "<NULL>"

\* isspace() of <ctype.h> in the "C" locale
isspace(ch) == ch \in {" ", "\t", "\n", "\r"}

\* a character buffer (sequence of one-character strings) printed as a string
RECURSIVE Str(_)
Str(chars) == IF chars = <<>> THEN "" ELSE Head(chars) \o Str(Tail(chars))

Last(s) == s[Len(s)]
Front(s) == SubSeq(s, 1, Len(s) - 1)
IsPrefix(a, b) == Len(a) <= Len(b) /\ SubSeq(b, 1, Len(a)) = a
Range(s) == {s[i] : i \in 1..Len(s)}

RECURSIVE SelectSeq2(_, _)
\* s without the elements at the positions in drop
SelectSeq2(s, drop) ==
    IF s = <<>> THEN <<>>
    ELSE LET rest == SelectSeq2(Front(s), drop)
         IN IF Len(s) \in drop THEN rest ELSE Append(rest, Last(s))

-----------------------------------------------------------------------------
(* The schema context np2srv.ly_ctx: loaded modules and their schema nodes. *)

BaseNs == "urn:ietf:params:xml:ns:netconf:base:1.0"

\* ly_ctx_get_module_iter: the loaded modules in enumeration order
Modules == <<
    [name |-> "ietf-yang-library",       ns |-> "urn:ietf:params:xml:ns:yang:ietf-yang-library"],
    [name |-> "ietf-netconf",            ns |-> BaseNs],
    [name |-> "ietf-netconf-monitoring", ns |-> "urn:ietf:params:xml:ns:yang:ietf-netconf-monitoring"],
    [name |-> "nc-notifications",        ns |-> "urn:ietf:params:xml:ns:netmod:notification"],
    [name |-> "ietf-interfaces",         ns |-> "urn:ietf-interfaces"],
    [name |-> "ietf-ip",                 ns |-> "urn:ietf-ip"],
    [name |-> "ex",                      ns |-> "ex"],
    [name |-> "ex2",                     ns |-> "ex2"] >>

ModuleNames == {Modules[i].name : i \in 1..Len(Modules)}

\* ly_ctx_get_module_by_ns: the module name, or NULL
ly_ctx_get_module_by_ns(ns) ==
    IF \E i \in 1..Len(Modules) : Modules[i].ns = ns
    THEN Modules[CHOOSE i \in 1..Len(Modules) : Modules[i].ns = ns].name
    ELSE NULL

ModuleNs(name) == Modules[CHOOSE i \in 1..Len(Modules) : Modules[i].name = name].ns

(* A schema node: sp is its schema path, a sequence of <<module, name>>;   *)
(* ord is its position among its siblings in the schema.                   *)
SN(sp, nodetype, ord, presence, keys, config, dflt) ==
    [sp |-> sp, nodetype |-> nodetype, ord |-> ord, presence |-> presence,
     keys |-> keys, config |-> config, dflt |-> dflt]

IfTop == <<"ietf-interfaces", "interfaces">>
IfList == <<"ietf-interfaces", "interface">>
IfState == <<"ietf-interfaces", "interfaces-state">>
ExTop == <<"ex", "top">>
Ex2Top == <<"ex2", "top">>
NcmTop == <<"ietf-netconf-monitoring", "netconf-state">>
NcmSchemas == <<"ietf-netconf-monitoring", "schemas">>
NcmSchema == <<"ietf-netconf-monitoring", "schema">>
YlTop == <<"ietf-yang-library", "modules-state">>
YlModule == <<"ietf-yang-library", "module">>
NtfTop == <<"nc-notifications", "netconf">>
NtfStreams == <<"nc-notifications", "streams">>
NtfStream == <<"nc-notifications", "stream">>

SchemaNodes == {
    (* ietf-interfaces, with the ietf-ip augments of the interface list *)
    SN(<<IfTop>>, "LYS_CONTAINER", 1, FALSE, <<>>, TRUE, NULL),
    SN(<<IfTop, IfList>>, "LYS_LIST", 1, FALSE, <<"name">>, TRUE, NULL),
    SN(<<IfTop, IfList, <<"ietf-interfaces", "name">>>>, "LYS_LEAF", 1, FALSE, <<>>, TRUE, NULL),
    SN(<<IfTop, IfList, <<"ietf-interfaces", "type">>>>, "LYS_LEAF", 2, FALSE, <<>>, TRUE, NULL),
    SN(<<IfTop, IfList, <<"ietf-interfaces", "enabled">>>>, "LYS_LEAF", 3, FALSE, <<>>, TRUE, "true"),
    SN(<<IfTop, IfList, <<"ietf-ip", "ipv4">>>>, "LYS_CONTAINER", 4, TRUE, <<>>, TRUE, NULL),
    SN(<<IfTop, IfList, <<"ietf-ip", "ipv4">>, <<"ietf-ip", "mtu">>>>, "LYS_LEAF", 1, FALSE, <<>>, TRUE, NULL),
    SN(<<IfTop, IfList, <<"ietf-ip", "ipv6">>>>, "LYS_CONTAINER", 5, TRUE, <<>>, TRUE, NULL),
    SN(<<IfTop, IfList, <<"ietf-ip", "ipv6">>, <<"ietf-ip", "mtu">>>>, "LYS_LEAF", 1, FALSE, <<>>, TRUE, NULL),
    SN(<<IfState>>, "LYS_CONTAINER", 2, FALSE, <<>>, FALSE, NULL),
    SN(<<IfState, IfList>>, "LYS_LIST", 1, FALSE, <<"name">>, FALSE, NULL),
    SN(<<IfState, IfList, <<"ietf-interfaces", "name">>>>, "LYS_LEAF", 1, FALSE, <<>>, FALSE, NULL),
    SN(<<IfState, IfList, <<"ietf-interfaces", "oper-status">>>>, "LYS_LEAF", 2, FALSE, <<>>, FALSE, NULL),
    (* ex *)
    SN(<<ExTop>>, "LYS_CONTAINER", 1, FALSE, <<>>, TRUE, NULL),
    SN(<<ExTop, <<"ex", "leaf">>>>, "LYS_LEAF", 1, FALSE, <<>>, TRUE, "v"),
    SN(<<ExTop, <<"ex", "item">>>>, "LYS_LIST", 2, FALSE, <<"id">>, TRUE, NULL),
    SN(<<ExTop, <<"ex", "item">>, <<"ex", "id">>>>, "LYS_LEAF", 1, FALSE, <<>>, TRUE, NULL),
    SN(<<ExTop, <<"ex", "item">>, <<"ex", "opt">>>>, "LYS_LEAF", 2, FALSE, <<>>, TRUE, "d"),
    SN(<<ExTop, <<"ex", "item">>, <<"ex", "val">>>>, "LYS_LEAF", 3, FALSE, <<>>, TRUE, NULL),
    SN(<<ExTop, <<"ex", "inner">>>>, "LYS_CONTAINER", 3, FALSE, <<>>, TRUE, NULL),
    SN(<<ExTop, <<"ex", "inner">>, <<"ex", "a">>>>, "LYS_LEAF", 1, FALSE, <<>>, TRUE, "1"),
    SN(<<ExTop, <<"ex", "inner">>, <<"ex", "b">>>>, "LYS_LEAF", 2, FALSE, <<>>, TRUE, NULL),
    SN(<<ExTop, <<"ex", "pres">>>>, "LYS_CONTAINER", 4, TRUE, <<>>, TRUE, NULL),
    SN(<<ExTop, <<"ex", "pres">>, <<"ex", "z">>>>, "LYS_LEAF", 1, FALSE, <<>>, TRUE, "0"),
    SN(<<ExTop, <<"ex", "count">>>>, "LYS_LEAF", 5, FALSE, <<>>, FALSE, NULL),
    (* ex2: a second module with a top-level node named top *)
    SN(<<Ex2Top>>, "LYS_CONTAINER", 1, FALSE, <<>>, TRUE, NULL),
    SN(<<Ex2Top, <<"ex2", "leaf">>>>, "LYS_LEAF", 1, FALSE, <<>>, TRUE, NULL),
    (* ietf-netconf-monitoring *)
    SN(<<NcmTop>>, "LYS_CONTAINER", 1, FALSE, <<>>, FALSE, NULL),
    SN(<<NcmTop, NcmSchemas>>, "LYS_CONTAINER", 1, FALSE, <<>>, FALSE, NULL),
    SN(<<NcmTop, NcmSchemas, NcmSchema>>, "LYS_LIST", 1, FALSE,
       <<"identifier", "version", "format">>, FALSE, NULL),
    SN(<<NcmTop, NcmSchemas, NcmSchema, <<"ietf-netconf-monitoring", "identifier">>>>,
       "LYS_LEAF", 1, FALSE, <<>>, FALSE, NULL),
    SN(<<NcmTop, NcmSchemas, NcmSchema, <<"ietf-netconf-monitoring", "version">>>>,
       "LYS_LEAF", 2, FALSE, <<>>, FALSE, NULL),
    SN(<<NcmTop, NcmSchemas, NcmSchema, <<"ietf-netconf-monitoring", "format">>>>,
       "LYS_LEAF", 3, FALSE, <<>>, FALSE, NULL),
    SN(<<NcmTop, NcmSchemas, NcmSchema, <<"ietf-netconf-monitoring", "namespace">>>>,
       "LYS_LEAF", 4, FALSE, <<>>, FALSE, NULL),
    SN(<<NcmTop, NcmSchemas, NcmSchema, <<"ietf-netconf-monitoring", "location">>>>,
       "LYS_LEAFLIST", 5, FALSE, <<>>, FALSE, NULL),
    (* ietf-yang-library *)
    SN(<<YlTop>>, "LYS_CONTAINER", 1, FALSE, <<>>, FALSE, NULL),
    SN(<<YlTop, <<"ietf-yang-library", "module-set-id">>>>, "LYS_LEAF", 1, FALSE, <<>>, FALSE, NULL),
    SN(<<YlTop, YlModule>>, "LYS_LIST", 2, FALSE, <<"name", "revision">>, FALSE, NULL),
    SN(<<YlTop, YlModule, <<"ietf-yang-library", "name">>>>, "LYS_LEAF", 1, FALSE, <<>>, FALSE, NULL),
    SN(<<YlTop, YlModule, <<"ietf-yang-library", "revision">>>>, "LYS_LEAF", 2, FALSE, <<>>, FALSE, NULL),
    SN(<<YlTop, YlModule, <<"ietf-yang-library", "namespace">>>>, "LYS_LEAF", 3, FALSE, <<>>, FALSE, NULL),
    (* nc-notifications *)
    SN(<<NtfTop>>, "LYS_CONTAINER", 1, FALSE, <<>>, FALSE, NULL),
    SN(<<NtfTop, NtfStreams>>, "LYS_CONTAINER", 1, FALSE, <<>>, FALSE, NULL),
    SN(<<NtfTop, NtfStreams, NtfStream>>, "LYS_LIST", 1, FALSE, <<"name">>, FALSE, NULL),
    SN(<<NtfTop, NtfStreams, NtfStream, <<"nc-notifications", "name">>>>, "LYS_LEAF", 1, FALSE, <<>>, FALSE, NULL),
    SN(<<NtfTop, NtfStreams, NtfStream, <<"nc-notifications", "description">>>>, "LYS_LEAF", 2, FALSE, <<>>, FALSE, NULL)
}

\* module->data of ietf-netconf holds only RPCs; every other module has data definitions
ModuleDataNodetypes(name) ==
    IF name = "ietf-netconf" THEN <<"LYS_RPC", "LYS_RPC">>
    ELSE IF name = "ietf-ip" THEN <<"LYS_GROUPING">>
    ELSE IF name = "nc-notifications" THEN <<"LYS_CONTAINER", "LYS_NOTIF">>
    ELSE <<"LYS_CONTAINER">>

\* lys_getnext over the top level of a module: the names of its top-level data nodes
TopLevelNames(module) == {n.sp[1][2] : n \in {s \in SchemaNodes : Len(s.sp) = 1 /\ s.sp[1][1] = module}}

\* the schema path of a data path
SchemaPath(dp) == [i \in 1..Len(dp) |-> <<dp[i].mod, dp[i].name>>]

HasSchema(dp) == \E s \in SchemaNodes : s.sp = SchemaPath(dp)
Schema(dp) == CHOOSE s \in SchemaNodes : s.sp = SchemaPath(dp)

-----------------------------------------------------------------------------
(* Data trees (struct lyd_node).  A tree is the sequence of its nodes in   *)
(* document order; a node is identified by its data path, a sequence of     *)
(* steps [mod, name, keys] (keys: the key values of a list instance).       *)
(* Siblings are the nodes with the same parent path, in sequence order.     *)

Step(mod, name, keys) == [mod |-> mod, name |-> name, keys |-> keys]
Node(path, val, dflt) == [path |-> path, val |-> val, dflt |-> dflt]

Paths(t) == {t[i].path : i \in 1..Len(t)}
Pos(t, p) == CHOOSE i \in 1..Len(t) : t[i].path = p
NodeAt(t, p) == t[Pos(t, p)]

\* node->parent (<<>> stands for the NULL parent of a top-level node)
Parent(p) == Front(p)

\* the index of the last node of the subtree of t[i]
SubtreeEnd(t, i) ==
    CHOOSE j \in i..Len(t) :
        /\ \A k \in i..j : IsPrefix(t[i].path, t[k].path)
        /\ (j = Len(t) \/ ~IsPrefix(t[i].path, t[j + 1].path))

\* the indices of the children of p in sibling order (node->child, ->next)
ChildIdx(t, p) == {i \in 1..Len(t) : Len(t[i].path) = Len(p) + 1 /\ IsPrefix(p, t[i].path)}

\* node->child: the index of the first child, 0 for none
FirstChildIdx(t, p) ==
    IF ChildIdx(t, p) = {} THEN 0
    ELSE CHOOSE i \in ChildIdx(t, p) : \A j \in ChildIdx(t, p) : i <= j

RECURSIVE SetToSeq(_)
\* a finite set of naturals as an ascending sequence
SetToSeq(S) ==
    IF S = {} THEN <<>>
    ELSE LET m == CHOOSE x \in S : \A y \in S : x <= y
         IN <<m>> \o SetToSeq(S \ {m})

\* the children of p as a sequence of paths in sibling order
Children(t, p) == LET idx == SetToSeq(ChildIdx(t, p)) IN [i \in 1..Len(idx) |-> t[idx[i]].path]

\* the subtree of the node at index i
Subtree(t, i) == SubSeq(t, i, SubtreeEnd(t, i))

InsertAfter(t, pos, block) == SubSeq(t, 1, pos) \o block \o SubSeq(t, pos + 1, Len(t))

IsKeyLeaf(p) ==
    /\ Len(p) > 1
    /\ HasSchema(Parent(p))
    /\ Schema(Parent(p)).nodetype = "LYS_LIST"
    /\ Last(p).name \in Range(Schema(Parent(p)).keys)
    /\ Last(p).mod = Parent(p)[Len(p) - 1].mod

\* the key leaves of the list instance at path p, in schema key order
KeyLeaves(p) ==
    LET ks == Schema(p).keys
    IN [j \in 1..Len(ks) |-> Node(Append(p, Step(Last(p).mod, ks[j], <<>>)), Last(p).keys[j], FALSE)]

-----------------------------------------------------------------------------
(* XPath expressions as the compiler prints them.  An expression is a      *)
(* sequence of steps "/pfx:name[text()='..'][@m:a='..'][pfx:c='..']";       *)
(* pfx = NULL is a name printed without module prefix.                      *)

XAttr(pfx, name, val) == [pfx |-> pfx, name |-> name, val |-> val]
XPred(pfx, name, attrs, val) == [pfx |-> pfx, name |-> name, attrs |-> attrs, val |-> val]
XStep(pfx, name, text, attrs, preds) ==
    [pfx |-> pfx, name |-> name, text |-> text, attrs |-> attrs, preds |-> preds]

RECURSIVE RenderAttrs(_)
RenderAttrs(attrs) ==
    IF attrs = <<>> THEN ""
    ELSE "[@" \o Head(attrs).pfx \o ":" \o Head(attrs).name \o "='" \o Head(attrs).val \o "']"
         \o RenderAttrs(Tail(attrs))

RenderName(pfx, name) == IF pfx = NULL THEN name ELSE pfx \o ":" \o name

RECURSIVE RenderPreds(_)
RenderPreds(preds) ==
    IF preds = <<>> THEN ""
    ELSE "[" \o RenderName(Head(preds).pfx, Head(preds).name) \o RenderAttrs(Head(preds).attrs)
         \o "='" \o Head(preds).val \o "']" \o RenderPreds(Tail(preds))

RenderStep(st) ==
    "/" \o RenderName(st.pfx, st.name)
    \o (IF st.text = NULL THEN "" ELSE "[text()='" \o st.text \o "']")
    \o RenderAttrs(st.attrs) \o RenderPreds(st.preds)

RECURSIVE Render(_)
\* the C string of an XPath expression
Render(xp) == IF xp = <<>> THEN "" ELSE RenderStep(Head(xp)) \o Render(Tail(xp))

RECURSIVE ResolvedMod(_, _)
\* the module a step names: its prefix, else the module of the preceding step
ResolvedMod(xp, i) ==
    IF xp[i].pfx # NULL THEN xp[i].pfx
    ELSE IF i > 1 THEN ResolvedMod(xp, i - 1) ELSE NULL

\* a predicate [pfx:c='val'] on the node at path p: a child leaf named c with that value
PredHolds(t, p, pred, ctxmod) ==
    /\ pred.attrs = <<>>
    /\ \E i \in ChildIdx(t, p) :
          /\ Last(t[i].path).name = pred.name
          /\ Last(t[i].path).mod = (IF pred.pfx # NULL THEN pred.pfx ELSE ctxmod)
          /\ t[i].val = pred.val

\* data nodes carry no XML attributes, so an attribute predicate never holds
StepMatches(t, p, xp, i) ==
    LET st == xp[i]
        ds == p[i]
        q  == SubSeq(p, 1, i)
    IN /\ ds.mod = ResolvedMod(xp, i)
       /\ (st.name = "*" \/ st.name = ds.name)
       /\ st.attrs = <<>>
       /\ (st.text # NULL => NodeAt(t, q).val = st.text)
       /\ \A k \in 1..Len(st.preds) : PredHolds(t, q, st.preds[k], ResolvedMod(xp, i))

\* lyd_find_xpath / the node set of an expression: the paths it selects in t
Eval(t, xp) ==
    {p \in Paths(t) : Len(p) = Len(xp) /\ \A i \in 1..Len(xp) : StepMatches(t, p, xp, i)}

\* the indices of the nodes of "xp//.": the selected nodes and their descendants
EvalDescendants(t, xp) ==
    LET sel == Eval(t, xp)
    IN {i \in 1..Len(t) : \E p \in sel : IsPrefix(p, t[i].path)}

-----------------------------------------------------------------------------
(* The subtree filter as parsed XML (struct lyxml_elem): name, ns (NULL for *)
(* none), content (a character buffer, <<>> for none), attr and child.      *)
(* mf names the allocation that fails, if any: [site, name] is the          *)
(* allocation at that site while the element called name is processed.      *)

Elem(name, ns, content, attr, child) ==
    [name |-> name, ns |-> ns, content |-> content, attr |-> attr, child |-> child]
Attr(type, name, ns, value) == [type |-> type, name |-> name, ns |-> ns, value |-> value]

NoFail == [site |-> "none", name |-> NULL]
Fails(mf, site, name) == mf.site = site /\ mf.name = name

\* strws: the string holds nothing but white space
strws(str) == \A i \in 1..Len(str) : isspace(str[i])

\* "skip leading and trailing whitespaces": start and len of the printed text
TrimStart(content) ==
    IF \E i \in 1..Len(content) : ~isspace(content[i])
    THEN CHOOSE i \in 1..Len(content) :
            ~isspace(content[i]) /\ \A j \in 1..(i - 1) : isspace(content[j])
    ELSE Len(content) + 1
TrimEnd(content) ==
    IF \E i \in 1..Len(content) : ~isspace(content[i])
    THEN CHOOSE i \in 1..Len(content) :
            ~isspace(content[i]) /\ \A j \in (i + 1)..Len(content) : isspace(content[j])
    ELSE Len(content)
\* faulty variant: the text printed with its trailing white space
Trimmed_KeepsTrailingSpace(content) == Str(SubSeq(content, TrimStart(content), Len(content)))
Trimmed(content) == Str(SubSeq(content, TrimStart(content), TrimEnd(content)))

\* RFC 6241 6.2.5 as the compiler tests it: no child, content that is not white space
IsContentMatch(e) == e.child = <<>> /\ e.content # <<>> /\ ~strws(e.content)

\* faulty variant: the new filter is not stored
opget_xpath_add_filter_Lost(new_filter, filters, mf, name) == [rc |-> 0, filters |-> filters]

opget_xpath_add_filter(new_filter, filters, mf, name) ==
    IF Fails(mf, "add_filter", name)
    THEN [rc |-> -1, filters |-> filters]
    ELSE [rc |-> 0, filters |-> Append(filters, new_filter)]

\* faulty variant: only the first attribute is looked at
PrintedAttrs_First(attr) ==
    IF attr # <<>> /\ Head(attr).type = "LYXML_ATTR_STD" /\ Head(attr).ns # NULL
       /\ ly_ctx_get_module_by_ns(Head(attr).ns) # NULL
    THEN <<XAttr(ly_ctx_get_module_by_ns(Head(attr).ns), Head(attr).name, Head(attr).value)>>
    ELSE <<>>

RECURSIVE PrintedAttrs(_)
\* the attributes opget_xpath_buf_add_attrs prints: standard ones with a known namespace
PrintedAttrs(attr) ==
    IF attr = <<>> THEN <<>>
    ELSE LET a == Head(attr)
             module == IF a.ns # NULL THEN ly_ctx_get_module_by_ns(a.ns) ELSE NULL
         IN IF a.type = "LYXML_ATTR_STD" /\ module # NULL
            THEN <<XAttr(module, a.name, a.value)>> \o PrintedAttrs(Tail(attr))
            ELSE PrintedAttrs(Tail(attr))

opget_xpath_buf_add_attrs(attr, mf, name) ==
    IF PrintedAttrs(attr) # <<>> /\ Fails(mf, "attrs", name)
    THEN [size |-> -1, out |-> <<>>]
    ELSE [size |-> 1, out |-> PrintedAttrs(attr)]

opget_xpath_buf_add_top_content(elem, elem_module_name, filters, mf) ==
    IF Fails(mf, "top_content", elem.name) THEN [rc |-> -1, filters |-> filters]
    ELSE LET a == opget_xpath_buf_add_attrs(elem.attr, mf, elem.name)
             buf == <<XStep(elem_module_name, elem.name, Trimmed(elem.content), a.out, <<>>)>>
         IN IF a.size < 1 THEN [rc |-> -1, filters |-> filters]
            ELSE opget_xpath_add_filter(buf, filters, mf, elem.name)

\* faulty variant: the name is printed without module prefix
PrefixOf_Unprefixed(elem, elem_module_name, last_ns) ==
    [known |-> TRUE, pfx |-> NULL, last_ns |-> last_ns]

\* the module prefix a node or content node is printed with, and the new last_ns
PrefixOf(elem, elem_module_name, last_ns) ==
    IF elem_module_name = NULL /\ elem.ns # NULL /\ elem.ns # last_ns /\ elem.ns # BaseNs
    THEN [known |-> ly_ctx_get_module_by_ns(elem.ns) # NULL,
          pfx |-> ly_ctx_get_module_by_ns(elem.ns), last_ns |-> elem.ns]
    ELSE [known |-> TRUE, pfx |-> elem_module_name, last_ns |-> last_ns]

opget_xpath_buf_add_content(elem, elem_module_name, last_ns, buf, mf) ==
    LET p == PrefixOf(elem, elem_module_name, last_ns)
        a == opget_xpath_buf_add_attrs(elem.attr, mf, elem.name)
        pred == XPred(p.pfx, elem.name, a.out, Trimmed(elem.content))
        st == Last(buf)
    IN IF ~p.known THEN [size |-> 0, buf |-> buf, last_ns |-> last_ns]
       ELSE IF Fails(mf, "content", elem.name) \/ a.size < 1
            THEN [size |-> -1, buf |-> buf, last_ns |-> p.last_ns]
            ELSE [size |-> 1, last_ns |-> p.last_ns,
                  buf |-> Append(Front(buf), [st EXCEPT !.preds = Append(@, pred)])]

opget_xpath_buf_add_node(elem, elem_module_name, last_ns, buf, mf) ==
    LET p == PrefixOf(elem, elem_module_name, last_ns)
        a == opget_xpath_buf_add_attrs(elem.attr, mf, elem.name)
    IN IF ~p.known THEN [size |-> 0, buf |-> buf, last_ns |-> last_ns]
       ELSE IF Fails(mf, "node", elem.name)
            THEN [size |-> -1, buf |-> buf, last_ns |-> p.last_ns]
            ELSE [size |-> a.size, last_ns |-> p.last_ns,
                  buf |-> Append(buf, XStep(p.pfx, elem.name, NULL, a.out, <<>>))]

RECURSIVE ContentLoop(_, _, _, _, _)
(* The "content match node" loop over elem->child (LY_TREE_FOR_SAFE).  st:  *)
(* buf, last_ns, filters, kept (the children still linked), rc ("run",      *)
(* "ret0" for the early return 0, "error").  c, n and f are the results of  *)
(* opget_xpath_buf_add_content, opget_xpath_buf_add_node on the copy of the *)
(* buffer, and opget_xpath_add_filter.                                      *)
ContentLoop(children, i, elem_module_name, st, mf) ==
    IF i > Len(children) \/ st.rc # "run" THEN st
    ELSE IF ~IsContentMatch(children[i])
    THEN ContentLoop(children, i + 1, elem_module_name,
                     [st EXCEPT !.kept = Append(@, children[i])], mf)
    ELSE LET child == children[i]
             stop(rc) == [st EXCEPT !.rc = rc, !.kept = @ \o SubSeq(children, i, Len(children))]
             FilterAdded(c, n, f) ==
                 IF f.rc # 0 THEN stop("error")
                 ELSE ContentLoop(children, i + 1, elem_module_name,
                                  [st EXCEPT !.buf = c.buf, !.last_ns = n.last_ns,
                                             !.filters = f.filters], mf)
             NodeAdded(c, n) ==
                 IF n.size = 0 THEN stop("ret0")
                 ELSE IF n.size < 1 THEN stop("error")
                 ELSE FilterAdded(c, n, opget_xpath_add_filter(n.buf, st.filters, mf, child.name))
             ContentAdded(c) ==
                 IF c.size = 0 THEN stop("ret0")
                 ELSE IF c.size < 1 THEN stop("error")
                 ELSE IF Fails(mf, "dup_content", child.name) THEN stop("error")
                 ELSE NodeAdded(c, opget_xpath_buf_add_node(child, elem_module_name,
                                                            c.last_ns, c.buf, mf))
         IN ContentAdded(opget_xpath_buf_add_content(child, elem_module_name,
                                                     st.last_ns, st.buf, mf))

RECURSIVE opget_xpath_buf_add(_, _, _, _, _, _)
RECURSIVE BranchLoop(_, _, _, _)
(* The branching loop over the remaining children.  st: buf (the caller's   *)
(* *buf), last_ns, filters, kids (the children as the calls leave them), rc *)
BranchLoop(children, i, st, mf) ==
    IF i > Len(children) \/ st.rc # "run" THEN st
    ELSE LET child == children[i]
             stop == [st EXCEPT !.rc = "error", !.kids = @ \o SubSeq(children, i, Len(children))]
             \* child containment node: the result of the call is not looked at
             Containment(r) ==
                 BranchLoop(children, i + 1,
                            [st EXCEPT !.filters = r.filters, !.kids = Append(@, r.elem)], mf)
             FilterAdded(n, f) ==
                 IF f.rc # 0 THEN stop
                 ELSE BranchLoop(children, i + 1,
                                 [st EXCEPT !.last_ns = n.last_ns, !.filters = f.filters,
                                            !.kids = Append(@, child)], mf)
             \* child selection node
             Selection(n) ==
                 IF n.size = 0
                 THEN BranchLoop(children, i + 1, [st EXCEPT !.kids = Append(@, child)], mf)
                 ELSE IF n.size < 1 THEN stop
                 ELSE FilterAdded(n, opget_xpath_add_filter(n.buf, st.filters, mf, child.name))
         IN IF i < Len(children) /\ Fails(mf, "dup_branch", child.name) THEN stop
            ELSE IF child.child # <<>>
            THEN Containment(opget_xpath_buf_add(child, NULL, st.last_ns, st.buf, st.filters, mf))
            ELSE Selection(opget_xpath_buf_add_node(child, NULL, st.last_ns, st.buf, mf))

(* buf is spent in the function, removes content match nodes from           *)
(* elem->child list.  Returns rc, the filters and the element as left.  n,  *)
(* c and b are the results of opget_xpath_buf_add_node, of the content      *)
(* match loop and of the branching loop.                                    *)
opget_xpath_buf_add(elem, elem_module_name, last_ns, buf, filters, mf) ==
    LET Returns(rc, fs, child) ==
            [rc |-> rc, filters |-> fs, elem |-> [elem EXCEPT !.child = child]]
        Branched(b) == Returns(IF b.rc = "error" THEN -1 ELSE 0, b.filters, b.kids)
        \* that is it, it seems
        ThatIsIt(c, f) == Returns(f.rc, f.filters, c.kept)
        ContentDone(c) ==
            IF c.rc = "ret0" THEN Returns(0, c.filters, c.kept)
            ELSE IF c.rc = "error" THEN Returns(-1, c.filters, c.kept)
            ELSE IF c.kept = <<>>
            THEN ThatIsIt(c, opget_xpath_add_filter(c.buf, c.filters, mf, elem.name))
            ELSE Branched(BranchLoop(c.kept, 1,
                                     [buf |-> c.buf, last_ns |-> c.last_ns,
                                      filters |-> c.filters, kids |-> <<>>, rc |-> "run"], mf))
        NodeAdded(n) ==
            IF n.size = 0 THEN [rc |-> 0, filters |-> filters, elem |-> elem]
            ELSE IF n.size < 1 THEN [rc |-> -1, filters |-> filters, elem |-> elem]
            ELSE ContentDone(ContentLoop(elem.child, 1, elem_module_name,
                                         [buf |-> n.buf, last_ns |-> n.last_ns,
                                          filters |-> filters, kept |-> <<>>, rc |-> "run"], mf))
    IN NodeAdded(opget_xpath_buf_add_node(elem, elem_module_name, last_ns, buf, mf))

RECURSIVE ModulesWithTopNode(_, _)
\* the modules, from the i-th on, that have a top-level node of that name
ModulesWithTopNode(name, i) ==
    IF i > Len(Modules) THEN <<>>
    ELSE (IF name \in TopLevelNames(Modules[i].name) THEN <<Modules[i]>> ELSE <<>>)
         \o ModulesWithTopNode(name, i + 1)

RECURSIVE ModuleLoop(_, _, _, _)
\* "for (i = 0; i < module_count; ++i)" on one root; st: elem, filters, rc
ModuleLoop(modules, i, st, mf) ==
    IF i > Len(modules) \/ st.rc # 0 THEN st
    ELSE LET \* special case of top-level content match node
             TopContent(t) == [st EXCEPT !.filters = t.filters, !.rc = t.rc]
             \* containment or selection node
             Added(r) == [elem |-> r.elem, filters |-> r.filters, rc |-> r.rc]
         IN ModuleLoop(modules, i + 1,
                       IF IsContentMatch(st.elem)
                       THEN TopContent(opget_xpath_buf_add_top_content(
                                           st.elem, modules[i].name, st.filters, mf))
                       ELSE Added(opget_xpath_buf_add(st.elem, modules[i].name, modules[i].ns,
                                                      <<>>, st.filters, mf)),
                       mf)

RECURSIVE RootLoop(_, _, _, _)
\* "LY_TREE_FOR(elem, next)" over the roots of the filter; st: forest, filters, rc
RootLoop(forest, i, st, mf) ==
    IF i > Len(forest) \/ st.rc # 0 THEN st
    ELSE LET next == forest[i]
             named == next.ns # NULL /\ next.ns # BaseNs
             \* m: the state the loop over the modules ends in
             Compiled(m) ==
                 RootLoop(forest, i + 1,
                          [forest |-> [st.forest EXCEPT ![i] = m.elem],
                           filters |-> m.filters, rc |-> m.rc], mf)
             WithModules(modules) ==
                 IF Fails(mf, "modules", next.name) /\ (named \/ modules # <<>>)
                 THEN [st EXCEPT !.rc = -1]
                 ELSE IF named /\ modules[1].name = NULL
                 THEN \* not really an error
                      RootLoop(forest, i + 1, st, mf)
                 ELSE Compiled(ModuleLoop(modules, 1,
                                          [elem |-> next, filters |-> st.filters, rc |-> 0], mf))
         IN WithModules(IF named
                        THEN <<[name |-> ly_ctx_get_module_by_ns(next.ns), ns |-> next.ns]>>
                        ELSE ModulesWithTopNode(next.name, 1))

(* modifies elem XML tree.  On error the collected filters are freed.       *)
opget_build_xpath_from_subtree_filter(elem, filters, mf) ==
    LET Returns(r) == [rc |-> r.rc, filters |-> r.filters, freed |-> r.rc # 0, elem |-> r.forest]
    IN Returns(RootLoop(elem, 1, [forest |-> elem, filters |-> filters, rc |-> 0], mf))

-----------------------------------------------------------------------------
(* Datastore content.  A datastore node carries the canonical string of its *)
(* value (val), the typed value sysrepo hands out for it (sv) and the       *)
(* default flag sysrepo reports for it.                                     *)

SrData(type, str, num, bln) == [type |-> type, str |-> str, num |-> num, bln |-> bln]
SrNone(type) == SrData(type, NULL, 0, FALSE)
SrString(str) == SrData("SR_STRING_T", str, 0, FALSE)
SrBool(b) == SrData("SR_BOOL_T", NULL, 0, b)
SrUint16(n) == SrData("SR_UINT16_T", NULL, n, FALSE)
SrInt8(n) == SrData("SR_INT8_T", NULL, n, FALSE)

DsNode(path, val, sv, dflt) == [path |-> path, val |-> val, sv |-> sv, dflt |-> dflt]

PIfs == <<Step("ietf-interfaces", "interfaces", <<>>)>>
PIf(n) == Append(PIfs, Step("ietf-interfaces", "interface", <<n>>))
PIfLeaf(n, l) == Append(PIf(n), Step("ietf-interfaces", l, <<>>))
PIp(n, c) == Append(PIf(n), Step("ietf-ip", c, <<>>))
PIfsState == <<Step("ietf-interfaces", "interfaces-state", <<>>)>>
PIfState(n) == Append(PIfsState, Step("ietf-interfaces", "interface", <<n>>))
PTop == <<Step("ex", "top", <<>>)>>
PEx(l) == Append(PTop, Step("ex", l, <<>>))
PItem(id) == Append(PTop, Step("ex", "item", <<id>>))
PItemLeaf(id, l) == Append(PItem(id), Step("ex", l, <<>>))
PInner(l) == Append(PEx("inner"), Step("ex", l, <<>>))
PTop2 == <<Step("ex2", "top", <<>>)>>

\* an interface entry of ietf-interfaces with the ietf-ip container named ip
DsInterface(n, type, enabled, ip, mtu) ==
    << DsNode(PIf(n), NULL, SrNone("SR_LIST_T"), FALSE),
       DsNode(PIfLeaf(n, "name"), n, SrString(n), FALSE),
       DsNode(PIfLeaf(n, "type"), type, SrString(type), FALSE),
       DsNode(PIfLeaf(n, "enabled"), IF enabled THEN "true" ELSE "false", SrBool(enabled), enabled),
       DsNode(PIp(n, ip), NULL, SrNone("SR_CONTAINER_PRESENCE_T"), FALSE),
       DsNode(Append(PIp(n, ip), Step("ietf-ip", "mtu", <<>>)), ToString(mtu), SrUint16(mtu), FALSE) >>

(* The content of module ex: leaf and inner/a hold their schema default     *)
(* (flagged) or an explicit value; item 1 has val or not; inner/b and pres  *)
(* exist or not.                                                            *)
DsEx(leafDflt, aDflt, hasB, hasVal, hasPres) ==
    << DsNode(PTop, NULL, SrNone("SR_CONTAINER_T"), FALSE),
       DsNode(PEx("leaf"), IF leafDflt THEN "v" ELSE "w",
              SrString(IF leafDflt THEN "v" ELSE "w"), leafDflt),
       DsNode(PItem("1"), NULL, SrNone("SR_LIST_T"), FALSE),
       DsNode(PItemLeaf("1", "id"), "1", SrString("1"), FALSE),
       DsNode(PItemLeaf("1", "opt"), "d", SrString("d"), TRUE) >>
    \o (IF hasVal THEN <<DsNode(PItemLeaf("1", "val"), "5", SrInt8(5), FALSE)>> ELSE <<>>)
    \o << DsNode(PEx("inner"), NULL, SrNone("SR_CONTAINER_T"), aDflt /\ ~hasB),
          DsNode(PInner("a"), IF aDflt THEN "1" ELSE "2", SrInt8(IF aDflt THEN 1 ELSE 2), aDflt) >>
    \o (IF hasB THEN <<DsNode(PInner("b"), "2", SrInt8(2), FALSE)>> ELSE <<>>)
    \o (IF hasPres
        THEN << DsNode(PEx("pres"), NULL, SrNone("SR_CONTAINER_PRESENCE_T"), FALSE),
                DsNode(Append(PEx("pres"), Step("ex", "z", <<>>)), "0", SrInt8(0), TRUE) >>
        ELSE <<>>)
    \o << DsNode(PEx("count"), "7", SrInt8(7), FALSE) >>

DsIfState ==
    << DsNode(PIfsState, NULL, SrNone("SR_CONTAINER_T"), FALSE),
       DsNode(PIfState("eth0"), NULL, SrNone("SR_LIST_T"), FALSE),
       DsNode(Append(PIfState("eth0"), Step("ietf-interfaces", "name", <<>>)), "eth0", SrString("eth0"), FALSE),
       DsNode(Append(PIfState("eth0"), Step("ietf-interfaces", "oper-status", <<>>)), "up",
              SrData("SR_ENUM_T", "up", 0, FALSE), FALSE) >>

DsEx2 ==
    << DsNode(PTop2, NULL, SrNone("SR_CONTAINER_T"), FALSE),
       DsNode(Append(PTop2, Step("ex2", "leaf", <<>>)), "v", SrString("v"), FALSE) >>

\* a whole datastore: the type of eth0 and the content of ex vary
Datastore(type0, leafDflt, aDflt, hasB, hasVal, hasPres) ==
    << DsNode(PIfs, NULL, SrNone("SR_CONTAINER_T"), FALSE) >>
    \o DsInterface("eth0", type0, TRUE, "ipv4", 1500)
    \o DsInterface("eth1", "eth", FALSE, "ipv6", 1280)
    \o DsIfState
    \o DsEx(leafDflt, aDflt, hasB, hasVal, hasPres)
    \o DsEx2

IsLeafNode(p) == HasSchema(p) /\ Schema(p).nodetype \in {"LYS_LEAF", "LYS_LEAFLIST"}

-----------------------------------------------------------------------------
(* The filters and datastores the compiler is run on.                       *)

MaxKids == 2        \* children of a generated filter element
MaxDatastores == 2  \* datastore contents the compiled XPaths are evaluated on

IfNs == "urn:ietf-interfaces"
IpNs == "urn:ietf-ip"
UnknownNs == "urn:unknown"

Sel(name, ns) == Elem(name, ns, <<>>, <<>>, <<>>)
Cm(name, ns, content) == Elem(name, ns, content, <<>>, <<>>)
Cont(name, ns, child) == Elem(name, ns, <<>>, <<>>, child)

Eth0 == <<"e", "t", "h", "0">>

\* child elements of <interface>
IfKidElems ==
    { Sel("name", IfNs), Cm("name", IfNs, Eth0), Cm("name", IfNs, <<" ">> \o Eth0 \o <<"\n">>),
      Cm("name", IfNs, <<" ", "\t">>),
      Sel("type", IfNs), Cm("type", IfNs, <<"e", "t", "h">>), Cm("enabled", IfNs, <<"t", "r", "u", "e">>),
      Sel("ipv4", IpNs), Sel("ipv6", IpNs), Cont("ipv4", IpNs, <<Sel("mtu", IpNs)>>),
      Sel("foo", UnknownNs), Cm("foo", UnknownNs, <<"1">>),
      Elem("name", IfNs, <<>>, <<Attr("LYXML_ATTR_STD", "a", "ex", "1")>>, <<>>),
      Elem("type", IfNs, <<"e", "t", "h">>, <<Attr("LYXML_ATTR_STD", "a", UnknownNs, "1"),
                                           Attr("LYXML_ATTR_NS", "xmlns", NULL, "ex")>>, <<>>) }

\* child elements of <top> in namespace ns
ExKidElems(ns) ==
    { Sel("leaf", ns), Cm("leaf", ns, <<"v">>), Sel("inner", ns),
      Cont("inner", ns, <<Cm("a", ns, <<"1">>)>>),
      Cont("inner", ns, <<Sel("a", ns), Sel("b", ns)>>),
      Cont("item", ns, <<Cm("id", ns, <<"1">>)>>),
      Cont("item", ns, <<Sel("opt", ns), Sel("val", ns)>>),
      Sel("pres", ns) }

\* the sequences over S of length 1..n
SeqsUpTo(S, n) == UNION {[1..k -> S] : k \in 1..n}

GeneratedFilters ==
    { <<Cont("interfaces", IfNs, <<Cont("interface", IfNs, kids)>>)>> :
        kids \in SeqsUpTo(IfKidElems, MaxKids) }
    \cup { <<Cont("top", "ex", kids)>> : kids \in SeqsUpTo(ExKidElems("ex"), MaxKids) }
    \cup { <<Cont("top", NULL, kids)>> : kids \in SeqsUpTo(ExKidElems(NULL), MaxKids) }

\* S1 of the specification
FilterS1 == <<Cont("interfaces", IfNs, <<Cont("interface", IfNs, <<Cm("name", IfNs, Eth0)>>)>>)>>

SpecialFilters ==
    { FilterS1,
      <<Cm("top", "ex", <<" ", "v", " ">>)>>,
      <<Cm("top", NULL, <<"v", "\n">>)>>,
      <<Elem("top", "ex", <<"v">>,
             <<Attr("LYXML_ATTR_STD", "a", "ex", "1"), Attr("LYXML_ATTR_STD", "b", UnknownNs, "2"),
               Attr("LYXML_ATTR_NS", "xmlns", NULL, "ex"), Attr("LYXML_ATTR_STD", "c", IfNs, "3"),
               Attr("LYXML_ATTR_STD", "d", NULL, "4")>>, <<>>)>>,
      <<Sel("interfaces", IfNs)>>,
      <<Sel("bar", UnknownNs), Sel("top", "ex")>>,
      <<Cont("top", BaseNs, <<Cm("leaf", BaseNs, <<"v">>), Sel("inner", BaseNs)>>)>>,
      <<Sel("netconf-state", "urn:ietf:params:xml:ns:yang:ietf-netconf-monitoring")>>,
      <<Cont("interfaces", IfNs, <<Cont("interface", IfNs,
            <<Cm("name", IfNs, Eth0), Cont("ipv4", IpNs, <<Sel("mtu", IpNs)>>), Sel("type", IfNs)>>)>>)>> }

Filters == GeneratedFilters \cup SpecialFilters

MallocSites == {"node", "content", "dup_content", "dup_branch", "add_filter", "attrs",
                "top_content", "modules"}
MallocFailures ==
    {[site |-> st, name |-> n] : st \in MallocSites,
                                 n \in {"interfaces", "interface", "name", "ipv4", "top"}}

Strip(ds) == [i \in 1..Len(ds) |-> Node(ds[i].path, ds[i].val, ds[i].dflt)]

DatastoreChoices ==
    << Datastore("eth", TRUE, TRUE, FALSE, TRUE, TRUE),
       Datastore("other", FALSE, FALSE, TRUE, TRUE, FALSE),
       Datastore("eth", TRUE, FALSE, TRUE, FALSE, TRUE),
       Datastore("other", TRUE, TRUE, TRUE, FALSE, FALSE) >>
CompilerDatastores ==
    {DatastoreChoices[i] : i \in 1..(IF MaxDatastores < 4 THEN MaxDatastores ELSE 4)}

CompilerInputs ==
    {[filter |-> f, mf |-> NoFail] : f \in Filters}
    \cup {[filter |-> f, mf |-> m] : f \in SpecialFilters, m \in MallocFailures}

Idle == [rc |-> 1, filters |-> <<>>, freed |-> FALSE, elem |-> <<>>]

OtherIdle(group) ==
    /\ (group = "cf" \/ (cf_in = [filter |-> <<>>, mf |-> NoFail] /\ cf_ds = <<>> /\ cf_out = Idle))
    /\ (group = "tb" \/ (tb_ds = <<>> /\ tb_root = <<>> /\ tb_calls = <<>>))
    /\ (group = "wd" \/ (wd_in = <<>> /\ wd_out = 0))
    /\ (group \in {"op", "mt"} \/ (sessions = <<>> /\ srs = <<>>))
    /\ (group = "op" \/ (nc_wd_dflt = NULL /\ last = <<>>))
    /\ (group = "mt" \/ (workers = <<>> /\ rpc_lock = 0 /\ trace = <<>>))
    /\ (group = "sv" \/ (sv_in = <<>> /\ sv_out = <<>>))

CompilerInit ==
    /\ cf_in \in CompilerInputs
    /\ cf_ds \in CompilerDatastores
    /\ cf_out = Idle
    /\ OtherIdle("cf")

\* one call of opget_build_xpath_from_subtree_filter with filters = NULL, filter_count = 0
Compile ==
    /\ cf_out = Idle
    /\ cf_out' = opget_build_xpath_from_subtree_filter(cf_in.filter, <<>>, cf_in.mf)
    /\ UNCHANGED <<cf_in, cf_ds, tb_vars, wd_vars, op_vars, mt_vars, sv_vars>>

CompilerNext == Compile

SpecCompiler == CompilerInit /\ [][CompilerNext]_vars

-----------------------------------------------------------------------------
(* RFC 6241 section 6 subtree filtering of a data tree, the reference the   *)
(* compiled XPaths are compared with.                                       *)

\* the element names the data node at q: same name, same module, no attribute to match
RFCNames(e, q, parentmod) ==
    /\ Last(q).name = e.name
    /\ IF e.ns # NULL /\ e.ns # BaseNs
       THEN ly_ctx_get_module_by_ns(e.ns) = Last(q).mod
       ELSE parentmod = NULL \/ Last(q).mod = parentmod
    /\ PrintedAttrs(e.attr) = <<>>

LeavesUnder(t, q) == {p \in Paths(t) : IsPrefix(q, p) /\ IsLeafNode(p)}

RECURSIVE RFCSelect(_, _, _)
(* The leaves the element e selects under the data node at q that it names: *)
(* sibling content-match nodes are ANDed, sibling selection and containment *)
(* nodes are ORed; without the latter the whole subtree is selected.        *)
RFCSelect(t, e, q) ==
    LET kids(i) == {c \in Range(Children(t, q)) : RFCNames(e.child[i], c, Last(q).mod)}
        hits(i) == {c \in kids(i) : NodeAt(t, c).val = Trimmed(e.child[i].content)}
        cms == {i \in 1..Len(e.child) : IsContentMatch(e.child[i])}
        others == (1..Len(e.child)) \ cms
    IN IF e.child = <<>>
       THEN IF IsContentMatch(e) /\ NodeAt(t, q).val # Trimmed(e.content) THEN {}
            ELSE LeavesUnder(t, q)
       ELSE IF \E i \in cms : hits(i) = {} THEN {}
       ELSE IF others = {} THEN LeavesUnder(t, q)
       ELSE UNION {hits(i) : i \in cms}
            \cup UNION {RFCSelect(t, e.child[i], c) : <<i, c>> \in {<<j, d>> \in others \X Paths(t) : d \in kids(j)}}

RFCFilter(t, forest) ==
    UNION {RFCSelect(t, forest[ic[1]], ic[2]) :
             ic \in {jd \in (1..Len(forest)) \X Paths(t) :
                       Len(jd[2]) = 1 /\ RFCNames(forest[jd[1]], jd[2], NULL)}}

\* the scalars the compiled XPaths select: the leaves among the nodes of every "xpath//."
XPathScalars(t, filters) ==
    LET idx == UNION {EvalDescendants(t, filters[k]) : k \in 1..Len(filters)}
    IN {t[i].path : i \in {j \in idx : IsLeafNode(t[j].path)}}

\* with the key leaves of every list instance above a selected leaf (RFC 6241: MAY be included)
WithKeys(t, S) ==
    S \cup {p \in Paths(t) : IsKeyLeaf(p) /\ \E q \in S : IsPrefix(Parent(p), q)}

(* C1: for every filter and datastore of the bounds, the compiled XPaths   *)
(* select exactly the scalars RFC 6241 subtree filtering selects.           *)
C1_RoundTrip ==
    (cf_out # Idle /\ cf_in.mf = NoFail /\ cf_out.rc = 0)
    => WithKeys(Strip(cf_ds), XPathScalars(Strip(cf_ds), cf_out.filters))
       = WithKeys(Strip(cf_ds), RFCFilter(Strip(cf_ds), cf_in.filter))


\* the namespace is that of a loaded module other than the NETCONF base module
KnownNs(ns) == ns # NULL /\ ns # BaseNs /\ ly_ctx_get_module_by_ns(ns) # NULL

\* E is a containment element whose children are all content-match nodes, namespaces known
OnlyContentMatchKids(E) ==
    /\ E.child # <<>>
    /\ KnownNs(E.ns)
    /\ \A i \in 1..Len(E.child) : IsContentMatch(E.child[i]) /\ KnownNs(E.child[i].ns)

\* val is the text of content without its leading and trailing white space
IsTrimmedText(val, content) ==
    \E a \in 1..Len(content) : \E b \in a..Len(content) :
        /\ \A k \in 1..(a - 1) : isspace(content[k])
        /\ \A k \in (b + 1)..Len(content) : isspace(content[k])
        /\ ~isspace(content[a]) /\ ~isspace(content[b])
        /\ val = Str(SubSeq(content, a, b))

(* The filter holds one such element E: as its root (depth 1) or as the     *)
(* only child of its root (depth 2); 0 when it does not.                    *)
C2_Depth(f) ==
    IF Len(f) # 1 THEN 0
    ELSE IF OnlyContentMatchKids(f[1]) THEN 1
    ELSE IF Len(f[1].child) = 1 /\ KnownNs(f[1].ns) /\ OnlyContentMatchKids(f[1].child[1]) THEN 2
    ELSE 0
C2_E(f) == IF C2_Depth(f) = 1 THEN f[1] ELSE f[1].child[1]

(* C2: a containment element E whose children are the content-match nodes  *)
(* c1..cn compiles to exactly n+1 XPaths: for each ci one that ends in the  *)
(* step /ci below E, and one that ends at E and carries a predicate on ci   *)
(* with the trimmed text of ci, for every ci; afterwards E has no child     *)
(* left.  The filter S1 compiles to exactly the two XPaths of the           *)
(* specification.                                                           *)
C2_ContentMatchXPaths ==
    (cf_out # Idle /\ cf_in.mf = NoFail /\ C2_Depth(cf_in.filter) > 0)
    => LET d == C2_Depth(cf_in.filter)
           E == C2_E(cf_in.filter)
           Eout == IF d = 1 THEN cf_out.elem[1] ELSE cf_out.elem[1].child[1]
           n == Len(E.child)
           fs == cf_out.filters
       IN /\ cf_out.rc = 0
          /\ Len(fs) = n + 1
          /\ Len(fs[n + 1]) = d
          /\ Last(fs[n + 1]).name = E.name
          /\ Len(Last(fs[n + 1]).preds) = n
          /\ \A i \in 1..n :
                /\ Last(fs[n + 1]).preds[i].name = E.child[i].name
                /\ IsTrimmedText(Last(fs[n + 1]).preds[i].val, E.child[i].content)
                /\ Len(fs[i]) = d + 1
                /\ Last(fs[i]).name = E.child[i].name
                /\ Last(fs[i]).preds = <<>> /\ Last(fs[i]).text = NULL
                /\ fs[i][d].name = E.name
          /\ Eout.child = <<>>
          /\ (cf_in.filter = FilterS1 =>
                {Render(fs[i]) : i \in 1..Len(fs)}
                = {"/ietf-interfaces:interfaces/interface[name='eth0']",
                   "/ietf-interfaces:interfaces/interface[name='eth0']/name"})

\* two content-match children, one with white space around its text, have been compiled
C2_Witness ==
    /\ cf_out # Idle /\ cf_in.mf = NoFail
    /\ C2_Depth(cf_in.filter) = 2
    /\ Len(C2_E(cf_in.filter).child) = 2
    /\ C2_E(cf_in.filter).child[1].content = <<" ">> \o Eth0 \o <<"\n">>
    /\ Len(cf_out.filters) = 3
    /\ Render(cf_out.filters[3]) = "/ietf-interfaces:interfaces/interface[name='eth0'][type='eth']"

\* the modules a root filter element resolves to, in enumeration order
RootModules(E) ==
    IF E.ns # NULL /\ E.ns # BaseNs
    THEN SelectSeq(Modules, LAMBDA m : m.ns = E.ns)
    ELSE SelectSeq(Modules, LAMBDA m : E.name \in TopLevelNames(m.name))

\* the attributes of E that are no namespace declaration and whose namespace is that of a module
ResolvableAttrs(E) ==
    SelectSeq(E.attr, LAMBDA a : a.type = "LYXML_ATTR_STD" /\ a.ns # NULL
                                 /\ \E i \in 1..Len(Modules) : Modules[i].ns = a.ns)

(* C11: a root filter element that is a content match compiles, for each    *)
(* module it resolves to, to exactly one XPath /module:root[text()='T']     *)
(* followed by one [@module:attr='value'] per attribute with a resolvable   *)
(* namespace, T being the text without leading and trailing white space.    *)
C11_TopContentMatch ==
    (cf_out # Idle /\ cf_in.mf = NoFail /\ Len(cf_in.filter) = 1
     /\ IsContentMatch(cf_in.filter[1]))
    => LET E == cf_in.filter[1]
           mods == RootModules(E)
           attrs == ResolvableAttrs(E)
           fs == cf_out.filters
       IN /\ cf_out.rc = 0
          /\ Len(fs) = Len(mods)
          /\ \A i \in 1..Len(fs) :
                /\ Len(fs[i]) = 1
                /\ fs[i][1].pfx = mods[i].name /\ fs[i][1].name = E.name
                /\ IsTrimmedText(fs[i][1].text, E.content)
                /\ fs[i][1].preds = <<>>
                /\ Len(fs[i][1].attrs) = Len(attrs)
                /\ \A k \in 1..Len(attrs) :
                      /\ ModuleNs(fs[i][1].attrs[k].pfx) = attrs[k].ns
                      /\ fs[i][1].attrs[k].name = attrs[k].name
                      /\ fs[i][1].attrs[k].val = attrs[k].value
                /\ Render(fs[i]) = "/" \o mods[i].name \o ":" \o E.name \o "[text()='"
                                   \o fs[i][1].text \o "']" \o RenderAttrs(fs[i][1].attrs)

\* a root content match with two resolvable attributes among five has been compiled
C11_Witness ==
    /\ cf_out # Idle /\ cf_in.mf = NoFail /\ Len(cf_in.filter) = 1
    /\ IsContentMatch(cf_in.filter[1]) /\ Len(cf_in.filter[1].attr) = 5
    /\ Len(cf_out.filters) = 1
    /\ Render(cf_out.filters[1]) = "/ex:top[text()='v'][@ex:a='1'][@ietf-interfaces:c='3']"

\* the filter of scenario S2: <top xmlns="ex"><leaf>v</leaf></top>
FilterS2 == <<Cont("top", "ex", <<Cm("leaf", "ex", <<"v">>)>>)>>

\* the compiled XPaths as the strings handed to the datastore
RenderedFilters == [i \in 1..Len(cf_out.filters) |-> Render(cf_out.filters[i])]

(* C12: compiling the filter of scenario S2 succeeds with two XPaths: the   *)
(* selection form /ex:top[ex:leaf='v']/ex:leaf of the content-match child   *)
(* and then /ex:top[ex:leaf='v'] for the root, which is a containment node. *)
C12_ScenarioS2 ==
    (cf_out # Idle /\ cf_in.filter = FilterS2 /\ cf_in.mf = NoFail)
    => /\ cf_out.rc = 0
       /\ RenderedFilters = <<"/ex:top[ex:leaf='v']/ex:leaf", "/ex:top[ex:leaf='v']">>

\* the filter of scenario S2 has been compiled
C12_Witness ==
    cf_out # Idle /\ cf_in.filter = FilterS2 /\ cf_in.mf = NoFail /\ Len(cf_out.filters) = 2

\* C12 as the specification states it: the single XPath /ex:top[text()='v']
C12_AsStated ==
    (cf_out # Idle /\ cf_in.filter = FilterS2 /\ cf_in.mf = NoFail)
    => RenderedFilters = <<"/ex:top[text()='v']">>

\* the element e as the XML parser delivers it when its root carries the namespace ns
RECURSIVE WithNs(_, _)
WithNs(e, ns) ==
    [e EXCEPT !.ns = IF e.ns = NULL THEN ns ELSE e.ns,
              !.child = [i \in 1..Len(e.child) |-> WithNs(e.child[i], ns)]]

\* an XPath without its module prefixes
Unprefixed(xp) ==
    [i \in 1..Len(xp) |->
        [xp[i] EXCEPT !.pfx = NULL,
                      !.preds = [k \in 1..Len(xp[i].preds) |-> [xp[i].preds[k] EXCEPT !.pfx = NULL]]]]

\* the XPaths of module m for the root E, were E to carry the namespace of m alone
RECURSIVE PerModule(_, _, _)
PerModule(E, mods, i) ==
    IF i > Len(mods) THEN <<>>
    ELSE opget_build_xpath_from_subtree_filter(<<WithNs(E, mods[i].ns)>>, <<>>, NoFail).filters
         \o PerModule(E, mods, i + 1)

(* C15: for a root filter element without namespace whose name is a         *)
(* top-level node of the modules m1..mk, the compiled list is, up to the    *)
(* module prefixes, the XPaths compiled for the root with the namespace of  *)
(* m1, then those for the namespace of m2, and so on: same paths and same   *)
(* content-match predicates for every module.                               *)
C15_EveryModuleAlike ==
    (cf_out # Idle /\ cf_in.mf = NoFail /\ Len(cf_in.filter) = 1 /\ cf_in.filter[1].ns = NULL)
    => LET expected == PerModule(cf_in.filter[1], RootModules(cf_in.filter[1]), 1)
       IN /\ cf_out.rc = 0
          /\ Len(cf_out.filters) = Len(expected)
          /\ \A i \in 1..Len(expected) :
                /\ cf_out.filters[i][1].pfx = expected[i][1].pfx
                /\ Unprefixed(cf_out.filters[i]) = Unprefixed(expected[i])

\* the namespace is that of no loaded module
UnknownNamespace(ns) == ns # NULL /\ ns # BaseNs /\ ly_ctx_get_module_by_ns(ns) = NULL

\* the name paths of the elements whose match an unknown namespace makes empty: the
\* elements in an unknown namespace and those with a content-match child in one
RECURSIVE EmptyMatches(_, _)
EmptyMatches(e, pre) ==
    (IF \/ UnknownNamespace(e.ns)
        \/ \E i \in 1..Len(e.child) :
              IsContentMatch(e.child[i]) /\ UnknownNamespace(e.child[i].ns)
     THEN {Append(pre, e.name)} ELSE {})
    \cup UNION {EmptyMatches(e.child[i], Append(pre, e.name)) : i \in 1..Len(e.child)}

\* the node names along an XPath
NamePath(xp) == [i \in 1..Len(xp) |-> xp[i].name]

(* C16: an element in a namespace of no loaded module never makes the       *)
(* compilation fail, and the compiled list holds no XPath into the subtree  *)
(* of an element whose match is thereby empty: an unknown-namespace element *)
(* or an element with a content-match child in an unknown namespace.        *)
C16_UnknownNamespace ==
    (cf_out # Idle /\ cf_in.mf = NoFail)
    => /\ cf_out.rc = 0
       /\ \A r \in 1..Len(cf_in.filter) : \A p \in EmptyMatches(cf_in.filter[r], <<>>) :
             \A i \in 1..Len(cf_out.filters) : ~IsPrefix(p, NamePath(cf_out.filters[i]))

(* C19: an allocation that fails during the compilation of a subtree        *)
(* filter, at any depth, makes opget_build_xpath_from_subtree_filter return *)
(* failure: whenever it returns success the list holds every XPath that the *)
(* filter compiles to when no allocation fails.                             *)
C19_AllocationFailure ==
    (cf_out # Idle /\ cf_out.rc = 0)
    => cf_out.filters = opget_build_xpath_from_subtree_filter(cf_in.filter, <<>>, NoFail).filters

\* the elements of a forest reached along a path of element names
RECURSIVE ElemsAt(_, _)
ElemsAt(forest, names) ==
    LET heads == {forest[i] : i \in {j \in 1..Len(forest) : forest[j].name = Head(names)}}
    IN IF Len(names) = 1 THEN heads
       ELSE UNION {ElemsAt(e.child, Tail(names)) : e \in heads}

\* the namespaces of the filter elements an XPath step or predicate was compiled from
NsAt(names) == {e.ns : e \in ElemsAt(cf_in.filter, names)}

\* every element of the forest is in the namespace of a loaded module other than the base one
RECURSIVE AllKnownNs(_)
AllKnownNs(forest) ==
    \A i \in 1..Len(forest) : KnownNs(forest[i].ns) /\ AllKnownNs(forest[i].child)

\* the name printed with prefix pfx for an element at names, after a step for the element at prev
NamedInNs(pfx, names, prev) ==
    IF pfx # NULL THEN ModuleNs(pfx) \in NsAt(names)
    ELSE prev # <<>> /\ NsAt(names) \cap NsAt(prev) # {}

(* C24: in every XPath compiled from a subtree filter each path step and    *)
(* each content-match predicate names its node in the namespace of the XML  *)
(* element it was compiled from: the prefix is the module of that           *)
(* namespace, and the prefix is omitted only if the element's namespace is  *)
(* the namespace of the preceding step of the same XPath.                   *)
C24_StepNamespaces ==
    (cf_out # Idle /\ cf_in.mf = NoFail /\ AllKnownNs(cf_in.filter))
    => \A i \in 1..Len(cf_out.filters) :
          LET xp == cf_out.filters[i]
              names == NamePath(xp)
          IN \A k \in 1..Len(xp) :
                /\ NamedInNs(xp[k].pfx, SubSeq(names, 1, k), SubSeq(names, 1, k - 1))
                /\ \A j \in 1..Len(xp[k].preds) :
                      NamedInNs(xp[k].preds[j].pfx,
                                Append(SubSeq(names, 1, k), xp[k].preds[j].name),
                                SubSeq(names, 1, k))

\* the step st carries a predicate for every content-match child of the element e
CarriesAll(st, e) ==
    \A c \in 1..Len(e.child) :
       IsContentMatch(e.child[c])
       => \E j \in 1..Len(st.preds) :
             /\ st.preds[j].name = e.child[c].name
             /\ IsTrimmedText(st.preds[j].val, e.child[c].content)

(* C27: every XPath emitted for an element and its subtree, the             *)
(* selection-form XPath of each content-match child included, carries at    *)
(* the element's step the predicates of all content-match children of the   *)
(* element, not only of those preceding in document order.                  *)
C27_AllPredicates ==
    (cf_out # Idle /\ cf_in.mf = NoFail /\ AllKnownNs(cf_in.filter))
    => \A i \in 1..Len(cf_out.filters) :
          LET xp == cf_out.filters[i]
          IN \A k \in 1..Len(xp) :
                \E e \in ElemsAt(cf_in.filter, SubSeq(NamePath(xp), 1, k)) : CarriesAll(xp[k], e)

-----------------------------------------------------------------------------
(* The libyang data-tree calls of the tree assembly, by their contract.     *)
(* A node pointer is a data path; <<>> is the NULL node.                    *)

\* the position after which a new last child of parent goes (parent <<>>: last top-level sibling)
LastChildPos(t, parent) == IF parent = <<>> THEN Len(t) ELSE SubtreeEnd(t, Pos(t, parent))

\* lyd_insert(parent, node): the block becomes the last child of parent
lyd_insert(t, parent, block) == InsertAfter(t, LastChildPos(t, parent), block)

\* a node lyd_new_path creates at p: a list instance comes with the key leaves of its predicates
NewNode(p, value_str) ==
    <<Node(p, IF IsLeafNode(p) THEN value_str ELSE NULL, FALSE)>>
    \o (IF Schema(p).nodetype = "LYS_LIST" THEN KeyLeaves(p) ELSE <<>>)

RECURSIVE CreatePath(_, _, _, _)
\* the missing nodes of p from depth k on, each created as the last child of its parent
CreatePath(t, p, k, value_str) ==
    IF k > Len(p) THEN t
    ELSE LET q == SubSeq(p, 1, k)
         IN IF q \in Paths(t) THEN CreatePath(t, p, k + 1, value_str)
            ELSE CreatePath(lyd_insert(t, Parent(q), NewNode(q, value_str)), p, k + 1, value_str)

(* lyd_new_path(root, ctx, path, value, 0, LYD_PATH_OPT_UPDATE): returns    *)
(* the first created node; for an existing leaf it returns the leaf when    *)
(* its value or default flag changed; NULL without error when nothing       *)
(* changed; ly_errno is set when the path names no schema node.             *)
lyd_new_path(t, p, value_str) ==
    IF ~HasSchema(p) THEN [root |-> t, node |-> <<>>, ly_errno |-> TRUE]
    ELSE IF p \in Paths(t)
    THEN IF IsLeafNode(p) /\ ~IsKeyLeaf(p) /\ (NodeAt(t, p).val # value_str \/ NodeAt(t, p).dflt)
         THEN [root |-> [t EXCEPT ![Pos(t, p)] = Node(p, value_str, FALSE)], node |-> p,
               ly_errno |-> FALSE]
         ELSE [root |-> t, node |-> <<>>, ly_errno |-> FALSE]
    ELSE LET k == CHOOSE i \in 1..Len(p) :
                     SubSeq(p, 1, i) \notin Paths(t) /\ \A j \in 1..(i - 1) : SubSeq(p, 1, j) \in Paths(t)
         IN [root |-> CreatePath(t, p, k, value_str), node |-> SubSeq(p, 1, k), ly_errno |-> FALSE]

RECURSIVE SortBySchema(_, _)
\* sibling indices ordered by the position of their schema nodes, stable
SortBySchema(t, S) ==
    IF S = {} THEN <<>>
    ELSE LET m == CHOOSE x \in S : \A y \in S :
                    \/ Schema(t[x].path).ord < Schema(t[y].path).ord
                    \/ (Schema(t[x].path).ord = Schema(t[y].path).ord /\ x <= y)
         IN <<m>> \o SortBySchema(t, S \ {m})

RECURSIVE ConcatSubtrees(_, _)
ConcatSubtrees(t, idx) ==
    IF idx = <<>> THEN <<>> ELSE Subtree(t, Head(idx)) \o ConcatSubtrees(t, Tail(idx))

\* lyd_schema_sort(p->child, 0): the children of p put into schema order
lyd_schema_sort(t, p) ==
    LET i == Pos(t, p)
    IN SubSeq(t, 1, i) \o ConcatSubtrees(t, SortBySchema(t, ChildIdx(t, p)))
       \o SubSeq(t, SubtreeEnd(t, i) + 1, Len(t))

RECURSIVE lyd_merge(_, _)
(* lyd_merge(target, source, LYD_OPT_DESTRUCT): a source node whose         *)
(* instance exists in the target is merged into it (a leaf takes the source *)
(* value), any other is moved in as the last child of its parent            *)
lyd_merge(t, s) ==
    IF s = <<>> THEN t
    ELSE LET n == Head(s)
         IN lyd_merge(IF n.path \in Paths(t)
                      THEN (IF IsLeafNode(n.path) THEN [t EXCEPT ![Pos(t, n.path)] = n] ELSE t)
                      ELSE lyd_insert(t, Parent(n.path), <<n>>),
                      Tail(s))

-----------------------------------------------------------------------------
(* Subtree Builder: opget_build_subtree_from_sysrepo                        *)

\* op_get_srval: the string of a sysrepo value, NULL for none
op_get_srval(value) ==
    IF value.type \in {"SR_STRING_T", "SR_BINARY_T", "SR_BITS_T", "SR_ENUM_T",
                       "SR_IDENTITYREF_T", "SR_INSTANCEID_T"} THEN value.str
    ELSE IF value.type = "SR_LEAF_EMPTY_T" THEN NULL
    ELSE IF value.type = "SR_BOOL_T" THEN (IF value.bln THEN "true" ELSE "false")
    ELSE IF value.type \in {"SR_UINT8_T", "SR_UINT16_T", "SR_UINT32_T", "SR_UINT64_T",
                            "SR_INT8_T", "SR_INT16_T", "SR_INT32_T", "SR_INT64_T"}
         THEN ToString(value.num)
    ELSE NULL

\* what the sysrepo session shows of a datastore: only config nodes under SR_SESS_CONFIG_ONLY
Visible(ds, opts) ==
    IF "SR_SESS_CONFIG_ONLY" \in opts THEN SelectSeq(ds, LAMBDA n : Schema(n.path).config) ELSE ds

\* sr_get_items_iter on "xpath//." and the values sr_get_item_next then yields, in pre-order
sr_get_items_iter(ds, subtree_xpath) ==
    LET idx == SetToSeq(EvalDescendants(Strip(ds), subtree_xpath))
    IN [i \in 1..Len(idx) |-> ds[idx[i]]]

RECURSIVE GoDown(_, _)
\* "go down": along first children until a leaf, leaf-list, anyxml or childless node
GoDown(t, iter) ==
    IF Schema(iter).nodetype \in {"LYS_LEAF", "LYS_LEAFLIST", "LYS_ANYXML"} \/ FirstChildIdx(t, iter) = 0
    THEN iter
    ELSE GoDown(t, t[FirstChildIdx(t, iter)].path)

RECURSIVE GoUp(_, _, _)
\* "go up, back to the node": mark until a presence container or keyed list, or node is marked
GoUp(t, iter, node) ==
    IF Schema(iter).nodetype = "LYS_CONTAINER" /\ Schema(iter).presence THEN t
    ELSE IF Schema(iter).nodetype = "LYS_LIST" /\ Len(Schema(iter).keys) > 0 THEN t
    ELSE LET marked == [t EXCEPT ![Pos(t, iter)].dflt = TRUE]
         IN IF iter = node THEN marked ELSE GoUp(marked, Parent(iter), node)

RECURSIVE ClearParents(_, _)
\* "non default node, propagate it to the parents": clear while the parent is flagged
ClearParents(t, iter) ==
    IF iter = <<>> \/ ~NodeAt(t, iter).dflt THEN t
    ELSE ClearParents([t EXCEPT ![Pos(t, iter)].dflt = FALSE], Parent(iter))

\* "propagate default flag" for the node lyd_new_path returned
PropagateDflt(t, node, dflt) ==
    IF dflt THEN GoUp(t, GoDown(t, node), node) ELSE ClearParents(t, Parent(node))

RECURSIVE ValueLoop(_, _, _, _)
\* the while loop over sr_get_item_next
ValueLoop(values, i, limit, root) ==
    IF i > Len(values) \/ (limit > 0 /\ i > limit) THEN [rc |-> 0, root |-> root]
    ELSE LET r == lyd_new_path(root, values[i].path, op_get_srval(values[i].sv))
         IN IF r.ly_errno THEN [rc |-> -1, root |-> r.root]
            ELSE ValueLoop(values, i + 1, limit,
                           IF r.node # <<>> THEN PropagateDflt(r.root, r.node, values[i].dflt)
                           ELSE r.root)

(* env.open: what sr_get_items_iter returns; env.limit: the number of       *)
(* values after which sr_get_item_next stops returning SR_ERR_OK (0: at the *)
(* end of the values)                                                       *)
opget_build_subtree_from_sysrepo(ds, root, subtree_xpath, env) ==
    IF env.open \in {"SR_ERR_UNKNOWN_MODEL", "SR_ERR_NOT_FOUND"} THEN [rc |-> 0, root |-> root]
    ELSE IF env.open # "SR_ERR_OK" THEN [rc |-> -1, root |-> root]
    ELSE ValueLoop(sr_get_items_iter(ds, subtree_xpath), 1, env.limit, root)

-----------------------------------------------------------------------------
(* Local Tree Projector: opget_build_tree_from_data                         *)

\* faulty variant: no key is added to a shallow-duplicated list instance
AddKeys_None(tmp_root, data, node, j) == tmp_root

RECURSIVE AddKeys(_, _, _, _)
(* "we want to include all list keys in the result": key j is the j-th      *)
(* child of the original list instance; it is duplicated to the end of the  *)
(* children of node2 unless a child with its schema is there already        *)
AddKeys(tmp_root, data, node, j) ==
    IF j > Len(Schema(node).keys) THEN tmp_root
    ELSE LET key == NodeAt(data, Children(data, node)[j])
             child == \E i \in ChildIdx(tmp_root, node) :
                         SchemaPath(tmp_root[i].path) = SchemaPath(key.path)
         IN AddKeys(IF child THEN tmp_root ELSE lyd_insert(tmp_root, node, <<key>>),
                    data, node, j + 1)

RECURSIVE ParentLoop(_, _, _, _)
\* the loop over node->parent: shallow duplicates put above tmp_root, lists completed and sorted
ParentLoop(tmp_root, data, p, k) ==
    IF k = 0 THEN tmp_root
    ELSE LET node == SubSeq(p, 1, k)
             node2 == <<NodeAt(data, node)>> \o tmp_root
         IN ParentLoop(IF Schema(node).nodetype = "LYS_LIST"
                       THEN lyd_schema_sort(AddKeys(node2, data, node, 1), node)
                       ELSE node2,
                       data, p, k - 1)

RECURSIVE NodesetLoop(_, _, _, _)
\* the loop over the node set of subtree_path, in document order
NodesetLoop(root, data, nodeset, i) ==
    IF i > Len(nodeset) THEN root
    ELSE LET p == data[nodeset[i]].path
             tmp_root == ParentLoop(Subtree(data, nodeset[i]), data, p, Len(p) - 1)
         IN NodesetLoop(IF root # <<>> THEN lyd_merge(root, tmp_root) ELSE tmp_root,
                        data, nodeset, i + 1)

opget_build_tree_from_data(root, data, subtree_path) ==
    LET sel == Eval(data, subtree_path)
        nodeset == SetToSeq({i \in 1..Len(data) : data[i].path \in sel})
    IN [rc |-> 0, root |-> NodesetLoop(root, data, nodeset, 1)]

-----------------------------------------------------------------------------
(* The data the server holds locally: ncm_get_data(), ly_ctx_info() and     *)
(* ntf_get_data().  List instances hold their keys first.                   *)

NcmPath == <<Step("ietf-netconf-monitoring", "netconf-state", <<>>),
             Step("ietf-netconf-monitoring", "schemas", <<>>)>>
NcmSchemaEntry(id, ns) ==
    LET q == Append(NcmPath, Step("ietf-netconf-monitoring", "schema", <<id, "1.0", "yang">>))
        Leaf(name, val) == Node(Append(q, Step("ietf-netconf-monitoring", name, <<>>)), val, FALSE)
    IN <<Node(q, NULL, FALSE), Leaf("identifier", id), Leaf("version", "1.0"), Leaf("format", "yang"),
         Leaf("namespace", ns), Leaf("location", "NETCONF")>>

ncm_get_data ==
    <<Node(SubSeq(NcmPath, 1, 1), NULL, FALSE), Node(NcmPath, NULL, FALSE)>>
    \o NcmSchemaEntry("ex", "ex") \o NcmSchemaEntry("ex2", "ex2")

ly_ctx_info ==
    LET top == <<Step("ietf-yang-library", "modules-state", <<>>)>>
        m == Append(top, Step("ietf-yang-library", "module", <<"ex", "2016-01-01">>))
        Leaf(q, name, val) == Node(Append(q, Step("ietf-yang-library", name, <<>>)), val, FALSE)
    IN <<Node(top, NULL, FALSE), Leaf(top, "module-set-id", "1"), Node(m, NULL, FALSE),
         Leaf(m, "name", "ex"), Leaf(m, "revision", "2016-01-01"), Leaf(m, "namespace", "ex")>>

ntf_get_data ==
    LET top == <<Step("nc-notifications", "netconf", <<>>)>>
        streams == Append(top, Step("nc-notifications", "streams", <<>>))
        st == Append(streams, Step("nc-notifications", "stream", <<"NETCONF">>))
    IN <<Node(top, NULL, FALSE), Node(streams, NULL, FALSE), Node(st, NULL, FALSE),
         Node(Append(st, Step("nc-notifications", "name", <<>>)), "NETCONF", FALSE),
         Node(Append(st, Step("nc-notifications", "description", <<>>)), "default", FALSE)>>

\* the modules whose data the server holds locally, and that data
LocalModules == {"ietf-yang-library", "ietf-netconf-monitoring", "nc-notifications"}
LocalData(module) ==
    IF module = "ietf-yang-library" THEN ly_ctx_info
    ELSE IF module = "ietf-netconf-monitoring" THEN ncm_get_data
    ELSE ntf_get_data

-----------------------------------------------------------------------------
(* Tree assembly: builder and projector calls on one root.                  *)

MaxCalls == 2   \* builder and projector calls made on one root

PlainStep(pfx, name) == XStep(pfx, name, NULL, <<>>, <<>>)

\* XPaths handed to the Subtree Builder
BuilderXPaths ==
    { <<PlainStep("ex", "top"), PlainStep(NULL, "leaf")>>,
      <<PlainStep("ex", "top"), PlainStep(NULL, "item"), PlainStep(NULL, "opt")>>,
      <<PlainStep("ex", "top"), PlainStep(NULL, "item"), PlainStep(NULL, "val")>>,
      <<PlainStep("ex", "top"), PlainStep(NULL, "inner")>>,
      <<PlainStep("ex", "top"), PlainStep(NULL, "pres"), PlainStep(NULL, "z")>>,
      <<PlainStep("ex", "top")>>,
      <<PlainStep("ietf-interfaces", "interfaces"),
        XStep(NULL, "interface", NULL, <<>>, <<XPred(NULL, "name", <<>>, "eth0")>>),
        PlainStep("ietf-ip", "ipv4")>> }

\* XPaths handed to the Local Tree Projector
ProjectorXPaths ==
    { <<PlainStep("ietf-netconf-monitoring", "netconf-state"), PlainStep(NULL, "schemas"),
        PlainStep(NULL, "schema"), PlainStep(NULL, "namespace")>>,
      <<PlainStep("ietf-netconf-monitoring", "netconf-state"), PlainStep(NULL, "schemas"),
        XStep(NULL, "schema", NULL, <<>>, <<XPred(NULL, "identifier", <<>>, "ex")>>),
        PlainStep(NULL, "location")>>,
      <<PlainStep("ietf-netconf-monitoring", "netconf-state"), PlainStep(NULL, "schemas"),
        PlainStep(NULL, "schema"), PlainStep(NULL, "version")>>,
      <<PlainStep("ietf-yang-library", "modules-state"), PlainStep(NULL, "module"),
        PlainStep(NULL, "namespace")>>,
      <<PlainStep("nc-notifications", "netconf"), PlainStep(NULL, "streams")>> }

\* the backend at a builder call: all values, an error at open, the iterator ending after one value
BuilderEnvs == { [open |-> "SR_ERR_OK", limit |-> 0], [open |-> "SR_ERR_INTERNAL", limit |-> 0],
                 [open |-> "SR_ERR_OK", limit |-> 1],
                 [open |-> "SR_ERR_UNKNOWN_MODEL", limit |-> 0], [open |-> "SR_ERR_NOT_FOUND", limit |-> 0] }

(* what the backend reports during one builder call: "no_data" (UnknownModel *)
(* or NotFound at the open), "open_error", "next_error" (sr_get_item_next    *)
(* returns an error while values are left) or "ok"                          *)
BackendOutcome(ds, subtree_xpath, env) ==
    IF env.open \in {"SR_ERR_UNKNOWN_MODEL", "SR_ERR_NOT_FOUND"} THEN "no_data"
    ELSE IF env.open # "SR_ERR_OK" THEN "open_error"
    ELSE IF env.limit > 0 /\ env.limit < Len(sr_get_items_iter(ds, subtree_xpath)) THEN "next_error"
    ELSE "ok"

TreeDatastores == {DatastoreChoices[1], DatastoreChoices[3]}

TreeInit ==
    /\ tb_ds \in TreeDatastores
    /\ tb_root = <<>>
    /\ tb_calls = [n |-> 0, rc |-> 0, kinds |-> {}, complete |-> TRUE, backend |-> "none",
                   xpaths |-> <<>>]
    /\ OtherIdle("tb")

\* the record of one more call
Called(kind, rc, complete, backend, xp) ==
    [n |-> tb_calls.n + 1, rc |-> rc, kinds |-> tb_calls.kinds \cup {kind},
     complete |-> tb_calls.complete /\ complete, backend |-> backend,
     xpaths |-> Append(tb_calls.xpaths, xp)]

\* op_get hands one XPath to the Subtree Builder; on failure it frees the root
BuilderCall ==
    /\ tb_calls.n < MaxCalls /\ tb_calls.rc = 0
    /\ \E xp \in BuilderXPaths, env \in BuilderEnvs :
          \E r \in {opget_build_subtree_from_sysrepo(tb_ds, tb_root, xp, env)} :
             /\ tb_root' = IF r.rc = 0 THEN r.root ELSE <<>>
             /\ tb_calls' = Called("builder", r.rc, env = [open |-> "SR_ERR_OK", limit |-> 0],
                                   BackendOutcome(tb_ds, xp, env), xp)
    /\ UNCHANGED <<tb_ds, cf_vars, wd_vars, op_vars, mt_vars, sv_vars>>

\* op_get hands one XPath to the Local Tree Projector
ProjectorCall ==
    /\ tb_calls.n < MaxCalls /\ tb_calls.rc = 0
    /\ \E xp \in ProjectorXPaths :
          \E r \in {opget_build_tree_from_data(tb_root, LocalData(xp[1].pfx), xp)} :
             /\ tb_root' = IF r.rc = 0 THEN r.root ELSE <<>>
             /\ tb_calls' = Called("projector", r.rc, TRUE, "none", xp)
    /\ UNCHANGED <<tb_ds, cf_vars, wd_vars, op_vars, mt_vars, sv_vars>>

TreeNext == BuilderCall \/ ProjectorCall

SpecTree == TreeInit /\ [][TreeNext]_vars

(* C18: a builder call returns success and leaves the root unchanged when   *)
(* the backend reports UnknownModel or NotFound, and returns failure for     *)
(* every other backend error, reported at the open of the iterator or by    *)
(* sr_get_item_next in the middle of the iteration.                         *)
C18_BackendErrors ==
    [][tb_calls'.n = tb_calls.n + 1
       => /\ tb_calls'.backend = "no_data" => (tb_calls'.rc = 0 /\ tb_root' = tb_root)
          /\ tb_calls'.backend \in {"open_error", "next_error"} => tb_calls'.rc # 0]_vars

\* the tree is well formed: every node but the top-level ones follows its parent
TypeTree ==
    \A i \in 1..Len(tb_root) :
        /\ Len(tb_root[i].path) > 1 => \E j \in 1..(i - 1) : tb_root[j].path = Parent(tb_root[i].path)
        /\ \A j \in 1..Len(tb_root) : tb_root[j].path = tb_root[i].path => j = i

\* the list instances of a tree
ListInstances(t) == {p \in Paths(t) : Schema(p).nodetype = "LYS_LIST"}

\* the first children of the list instance p are its key leaves, in the order of the schema
HoldsKeys(t, p) ==
    LET keys == Schema(p).keys
        ch == Children(t, p)
    IN /\ Len(ch) >= Len(keys)
       /\ \A j \in 1..Len(keys) :
             /\ SchemaPath(ch[j]) = Append(SchemaPath(p), <<Last(p).mod, keys[j]>>)
             /\ Schema(ch[j]).ord = j
             /\ NodeAt(t, ch[j]).val = Last(p).keys[j]

(* C7: key completeness.  In the tree produced by any sequence of projector *)
(* and builder calls every list instance has each of its schema-declared    *)
(* key leaves among its direct children, in schema order, also when the     *)
(* instance is there only as a shallow-duplicated ancestor of a matched     *)
(* node.                                                                    *)
C7_KeyCompleteness == \A p \in ListInstances(tb_root) : HoldsKeys(tb_root, p)

(* a projector call matched the second key leaf of a list instance, so the  *)
(* instance is a shallow duplicate that was given its other keys and sorted *)
C7_Witness ==
    /\ tb_calls.kinds = {"projector"} /\ tb_calls.rc = 0
    /\ \E p \in ListInstances(tb_root) :
          /\ Last(p).name = "schema"
          /\ Len(Children(tb_root, p)) = Len(Schema(p).keys)
          /\ HoldsKeys(tb_root, p)

\* the proper descendants of p in t that are not key leaves
NonKeyDescendants(t, p) == {q \in Paths(t) : q # p /\ IsPrefix(p, q) /\ ~IsKeyLeaf(q)}

(* C8: default propagation consistency.  After the Subtree Builder has      *)
(* processed all values of all XPaths, a non-leaf node carries the default  *)
(* flag if and only if every non-key descendant carries it and the node is  *)
(* not a presence container.                                                *)
C8_DefaultPropagation ==
    (tb_calls.n > 0 /\ tb_calls.kinds = {"builder"} /\ tb_calls.complete /\ tb_calls.rc = 0)
    => \A p \in Paths(tb_root) :
          ~IsLeafNode(p)
          => (NodeAt(tb_root, p).dflt
              <=> (/\ ~Schema(p).presence
                   /\ \A q \in NonKeyDescendants(tb_root, p) : NodeAt(tb_root, q).dflt))

\* the datastore holds a default value at path p
YieldedDefault(p) == \E k \in 1..Len(tb_ds) : tb_ds[k].path = p /\ tb_ds[k].dflt

(* C22: once the Subtree Builder has processed a value yielded with         *)
(* default=true, the leaf at the path of that value carries the default     *)
(* flag, also when the insertion created missing ancestors of the leaf,     *)
(* such as a keyed list instance, in the same step.                         *)
C22_DefaultFlagSet ==
    (tb_calls.n > 0 /\ tb_calls.kinds = {"builder"} /\ tb_calls.rc = 0)
    => \A p \in Paths(tb_root) :
          (IsLeafNode(p) /\ ~IsKeyLeaf(p) /\ YieldedDefault(p)) => NodeAt(tb_root, p).dflt

\* the datastore holds a value that is not a default at path p
YieldedExplicit(p) == \E k \in 1..Len(tb_ds) : tb_ds[k].path = p /\ ~tb_ds[k].dflt

\* p is a presence container or a list with keys
NeverDefault(p) ==
    \/ Schema(p).nodetype = "LYS_CONTAINER" /\ Schema(p).presence
    \/ Schema(p).nodetype = "LYS_LIST" /\ Len(Schema(p).keys) > 0

(* C23: after any sequence of Subtree Builder calls on one root no node     *)
(* with the default flag is a presence container or a keyed list, and none  *)
(* has a descendant leaf that was yielded with default=false or a           *)
(* descendant presence container.                                           *)
C23_DefaultFlagSound ==
    (tb_calls.n > 0 /\ tb_calls.kinds = {"builder"} /\ tb_calls.rc = 0)
    => \A p \in Paths(tb_root) :
          NodeAt(tb_root, p).dflt
          => /\ ~NeverDefault(p)
             /\ \A q \in NonKeyDescendants(tb_root, p) :
                   /\ ~(IsLeafNode(q) /\ YieldedExplicit(q))
                   /\ ~(Schema(q).nodetype = "LYS_CONTAINER" /\ Schema(q).presence)

RECURSIVE BuiltInOrder(_, _)
\* the root after complete builder calls for the XPaths of xps, in their order, on an empty root
BuiltInOrder(ds, xps) ==
    IF xps = <<>> THEN <<>>
    ELSE opget_build_subtree_from_sysrepo(ds, BuiltInOrder(ds, Front(xps)), Last(xps),
                                          [open |-> "SR_ERR_OK", limit |-> 0]).root

(* C29: the tree assembled by complete builder calls over one unchanged     *)
(* datastore has the same nodes, values and default flags whatever the      *)
(* order of the XPaths: A then B gives what B then A gives, and the same    *)
(* XPath twice gives what it gives once.                                    *)
C29_OrderIndependent ==
    (tb_calls.n = 2 /\ tb_calls.kinds = {"builder"} /\ tb_calls.rc = 0 /\ tb_calls.complete)
    => /\ Range(tb_root) = Range(BuiltInOrder(tb_ds, <<tb_calls.xpaths[2], tb_calls.xpaths[1]>>))
       /\ tb_calls.xpaths[1] = tb_calls.xpaths[2]
          => Range(tb_root) = Range(BuiltInOrder(tb_ds, <<tb_calls.xpaths[1]>>))

-----------------------------------------------------------------------------
(* The with-defaults decision: op_dflt_data_inspect                         *)

MtuPath == <<IfTop, IfList, <<"ietf-ip", "ipv4">>, <<"ietf-ip", "mtu">>>>
CountPath == <<ExTop, <<"ex", "count">>>>

(* sleaf->type.der: the defaults of the typedefs the type of a leaf derives *)
(* from, nearest first, NULL for a typedef without default                  *)
TypeDer(sp) ==
    IF sp = MtuPath THEN <<NULL, "1500", "9000">>
    ELSE IF sp = CountPath THEN <<"0">>
    ELSE <<>>

\* the output of an RPC of module ex
RpcOutputNodes ==
    { SN(<<<<"ex", "op">>, <<"ex", "result">>>>, "LYS_LEAF", 1, FALSE, <<>>, FALSE, "ok"),
      SN(<<<<"ex", "op">>, <<"ex", "plain">>>>, "LYS_LEAF", 2, FALSE, <<>>, FALSE, NULL) }

NoNode == SN(<<>>, "NONE", 0, FALSE, <<>>, FALSE, NULL)

\* ly_ctx_get_node2(ctx, NULL, xpath, rpc_output): the schema node, NoNode for NULL
ly_ctx_get_node2(xpath, rpc_output) ==
    LET nodes == IF rpc_output THEN RpcOutputNodes ELSE SchemaNodes
    IN IF \E n \in nodes : n.sp = xpath THEN CHOOSE n \in nodes : n.sp = xpath ELSE NoNode

\* faulty variant: the typedefs of the type are not looked at
TpdfDflt_None(der) == NULL

RECURSIVE TpdfDflt(_)
\* "typedef's default value": of the first typedef up the chain that has one
TpdfDflt(der) ==
    IF der = <<>> THEN NULL
    ELSE IF Head(der) # NULL THEN Head(der)
    ELSE TpdfDflt(Tail(der))

\* return: -1 = discard, 0 = keep, 1 = keep and add the attribute
op_dflt_data_inspect(value, wd, rpc_output) ==
    IF wd = "NC_WD_ALL" THEN 0
    ELSE IF wd = "NC_WD_EXPLICIT" /\ ~value.dflt THEN 0
    ELSE LET sleaf == ly_ctx_get_node2(value.xpath, rpc_output)
             dflt_val == IF sleaf.dflt # NULL THEN sleaf.dflt ELSE TpdfDflt(TypeDer(sleaf.sp))
             val == op_get_srval(value.sv)
         IN IF sleaf = NoNode THEN -1
            ELSE IF sleaf.nodetype # "LYS_LEAF" THEN 0
            ELSE IF wd = "NC_WD_EXPLICIT" THEN (IF sleaf.config /\ ~rpc_output THEN -1 ELSE 0)
            ELSE IF value.dflt
                 THEN (IF wd = "NC_WD_TRIM" THEN -1 ELSE IF wd = "NC_WD_ALL_TAG" THEN 1 ELSE -1)
            ELSE IF wd = "NC_WD_TRIM" THEN (IF dflt_val # NULL /\ dflt_val = val THEN -1 ELSE 0)
            ELSE IF wd = "NC_WD_ALL_TAG" THEN (IF dflt_val # NULL /\ dflt_val = val THEN 1 ELSE 0)
            ELSE -1

\* a value handed to the inspection: the schema path of its xpath, its canonical string, its data
WdValue(xpath, val, sv) == [xpath |-> xpath, val |-> val, sv |-> sv]

WdValues ==
    { WdValue(<<ExTop, <<"ex", "leaf">>>>, "v", SrString("v")),
      WdValue(<<ExTop, <<"ex", "leaf">>>>, "w", SrString("w")),
      WdValue(<<IfTop, IfList, <<"ietf-interfaces", "enabled">>>>, "true", SrBool(TRUE)),
      WdValue(<<IfTop, IfList, <<"ietf-interfaces", "enabled">>>>, "false", SrBool(FALSE)),
      WdValue(MtuPath, "1500", SrUint16(1500)),
      WdValue(MtuPath, "9000", SrUint16(9000)),
      WdValue(CountPath, "0", SrInt8(0)),
      WdValue(CountPath, "-7", SrInt8(-7)),
      WdValue(<<ExTop, <<"ex", "item">>, <<"ex", "val">>>>, "5", SrInt8(5)),
      WdValue(<<ExTop>>, NULL, SrNone("SR_CONTAINER_T")),
      WdValue(<<<<"ex", "op">>, <<"ex", "result">>>>, "ok", SrString("ok")),
      WdValue(<<<<"ex", "op">>, <<"ex", "result">>>>, "no", SrString("no")),
      WdValue(<<<<"ex", "op">>, <<"ex", "plain">>>>, NULL, SrNone("SR_LEAF_EMPTY_T")) }

WdModes == {"NC_WD_UNKNOWN", "NC_WD_ALL", "NC_WD_ALL_TAG", "NC_WD_TRIM", "NC_WD_EXPLICIT"}

DefaultsInit ==
    /\ wd_in \in [value : {[xpath |-> v.xpath, val |-> v.val, sv |-> v.sv, dflt |-> d] :
                              v \in WdValues, d \in BOOLEAN},
                  wd : WdModes, rpc_output : BOOLEAN]
    /\ wd_out = [done |-> FALSE, rc |-> 0]
    /\ OtherIdle("wd")

\* one call of op_dflt_data_inspect
Inspect ==
    /\ ~wd_out.done
    /\ wd_out' = [done |-> TRUE, rc |-> op_dflt_data_inspect(wd_in.value, wd_in.wd, wd_in.rpc_output)]
    /\ UNCHANGED <<wd_in, cf_vars, tb_vars, op_vars, mt_vars, sv_vars>>

DefaultsNext == Inspect

SpecDefaults == DefaultsInit /\ [][DefaultsNext]_vars

\* the schema leaf the inspected value belongs to, where there is one
WdLeaf == ly_ctx_get_node2(wd_in.value.xpath, wd_in.rpc_output)

(* the schema default a leaf value is compared with: the leaf's own, else   *)
(* the first one of the typedefs its type derives from                      *)
WdSchemaDefault ==
    IF WdLeaf.dflt # NULL THEN WdLeaf.dflt
    ELSE LET der == TypeDer(WdLeaf.sp)
         IN IF \E i \in 1..Len(der) : der[i] # NULL
            THEN der[CHOOSE i \in 1..Len(der) : der[i] # NULL /\ \A j \in 1..(i - 1) : der[j] = NULL]
            ELSE NULL

WdEqualsDefault == WdSchemaDefault # NULL /\ wd_in.value.val = WdSchemaDefault

(* C10: for every leaf, op_dflt_data_inspect returns the decision of the    *)
(* table: report-all keeps; trim drops when the flag is set or the value    *)
(* equals the schema default and keeps otherwise; report-all-tagged with    *)
(* the flag clear tags a value equal to the default and keeps one that      *)
(* differs; explicit drops only a default-flagged, config-writable leaf     *)
(* outside RPC output and keeps otherwise.                                  *)
C10_DecisionTable ==
    (wd_out.done /\ WdLeaf.nodetype = "LYS_LEAF")
    => /\ wd_in.wd = "NC_WD_ALL" => wd_out.rc = 0
       /\ wd_in.wd = "NC_WD_TRIM"
            => wd_out.rc = (IF wd_in.value.dflt \/ WdEqualsDefault THEN -1 ELSE 0)
       /\ (wd_in.wd = "NC_WD_ALL_TAG" /\ ~wd_in.value.dflt)
            => wd_out.rc = (IF WdEqualsDefault THEN 1 ELSE 0)
       /\ wd_in.wd = "NC_WD_EXPLICIT"
            => wd_out.rc = (IF wd_in.value.dflt /\ WdLeaf.config /\ ~wd_in.rpc_output THEN -1 ELSE 0)

(* report-all-tagged tagged an unflagged value that equals a default found  *)
(* only on the second typedef up the chain                                  *)
C10_Witness ==
    /\ wd_out.done /\ wd_out.rc = 1
    /\ wd_in.wd = "NC_WD_ALL_TAG" /\ ~wd_in.value.dflt
    /\ WdLeaf.nodetype = "LYS_LEAF" /\ WdLeaf.dflt = NULL
    /\ wd_in.value.val = "1500"

-----------------------------------------------------------------------------
(* The orchestrator: op_get and op_validate on one NETCONF session.         *)

\* what each datastore of the backend holds: leaf is explicit in running, default in startup
DsContent(ds) ==
    << DsNode(PTop, NULL, SrNone("SR_CONTAINER_T"), FALSE),
       DsNode(PEx("leaf"), IF ds = "SR_DS_STARTUP" THEN "v" ELSE "w",
              SrString(IF ds = "SR_DS_STARTUP" THEN "v" ELSE "w"), ds = "SR_DS_STARTUP"),
       DsNode(PEx("count"), "7", SrInt8(7), FALSE) >>

(* The <filter> node of an RPC: its type attribute (NULL for none), whether *)
(* it has a select attribute and its value, and its anyxml value: "empty"   *)
(* (no or empty string), "xml" (the parsed forest in xml) or "bad" (text    *)
(* lyxml_parse_mem rejects).                                                *)
FilterNode(type, has_select, select, value, xml) ==
    [present |-> TRUE, type |-> type, has_select |-> has_select, select |-> select,
     value |-> value, xml |-> xml]
NoFilter == [present |-> FALSE, type |-> NULL, has_select |-> FALSE, select |-> <<>>,
             value |-> "empty", xml |-> <<>>]
SubtreeFilter(xml) == FilterNode("subtree", FALSE, <<>>, IF xml = <<>> THEN "empty" ELSE "xml", xml)
XPathFilter(select) == FilterNode("xpath", TRUE, select, "empty", <<>>)

\* the RPC: its name, the child of <source>, the filter and the with-defaults leaf (NULL for none)
Rpc(name, source, filter, wd) == [name |-> name, source |-> source, filter |-> filter, wd |-> wd]

\* what the backend and the allocator do during one RPC
RpcEnv(switch_ds, set_options, refresh, iter, sr_validate, mf) ==
    [switch_ds |-> switch_ds, set_options |-> set_options, refresh |-> refresh, iter |-> iter,
     sr_validate |-> sr_validate, mf |-> mf]
EnvOk == RpcEnv("SR_ERR_OK", "SR_ERR_OK", "SR_ERR_OK", [open |-> "SR_ERR_OK", limit |-> 0],
                "SR_ERR_OK", NoFail)

\* a backend call as logged: the XPath and the mode of the backend session for an iterator
Call(name) == [call |-> name, xpath |-> <<>>, config_only |-> FALSE]
IterCall(xpath, backend) ==
    [call |-> "sr_get_items_iter", xpath |-> xpath,
     config_only |-> "SR_SESS_CONFIG_ONLY" \in backend.opts]

\* "get know which datastore is being affected"
ResolveDs(rpc) ==
    IF rpc.name = "get" THEN [ds |-> "SR_DS_RUNNING", config_only |-> {}]
    ELSE [ds |-> IF rpc.source = "running" THEN "SR_DS_RUNNING"
                 ELSE IF rpc.source = "startup" THEN "SR_DS_STARTUP"
                 ELSE IF rpc.source = "candidate" THEN "SR_DS_CANDIDATE"
                 ELSE "SR_DS_STARTUP",
          config_only |-> {"SR_SESS_CONFIG_ONLY"}]

\* faulty variant: only the datastore is compared
NeedsSwitch_DsOnly(ds, config_only, sess) == ds # sess.ds

NeedsSwitch(ds, config_only, sess) ==
    ds # sess.ds \/ (sess.opts \cap {"SR_SESS_CONFIG_ONLY"}) # config_only

(* "update sysrepo session datastore", "update sysrepo session config": the *)
(* return values of the two backend calls are not looked at                 *)
SwitchSession(ds, config_only, sess, backend, env) ==
    IF NeedsSwitch(ds, config_only, sess)
    THEN [sessions |-> [sess EXCEPT !.ds = ds, !.opts = config_only],
          srs |-> [ds |-> IF env.switch_ds = "SR_ERR_OK" THEN ds ELSE backend.ds,
                   opts |-> IF env.set_options = "SR_ERR_OK" THEN config_only ELSE backend.opts],
          calls |-> <<Call("sr_session_switch_ds"), Call("sr_session_set_options")>>]
    ELSE [sessions |-> sess, srs |-> backend, calls |-> <<>>]

\* faulty variant: any top-level schema node counts
ModuleHasData_AnyNode(name) == ModuleDataNodetypes(name) # <<>>

\* "module with some actual data definitions"
ModuleHasData(name) ==
    \E i \in 1..Len(ModuleDataNodetypes(name)) :
        ModuleDataNodetypes(name)[i] \notin {"LYS_GROUPING", "LYS_NOTIF", "LYS_RPC"}

RECURSIVE NoFilterLoop(_, _, _)
\* the loop over ly_ctx_get_module_iter: "/module:*" for each module with data
NoFilterLoop(i, st, mf) ==
    IF i > Len(Modules) \/ st.rc # 0 THEN st
    ELSE NoFilterLoop(i + 1,
                      IF ModuleHasData(Modules[i].name)
                      THEN opget_xpath_add_filter(<<PlainStep(Modules[i].name, "*")>>, st.filters,
                                                  mf, Modules[i].name)
                      ELSE st,
                      mf)

\* "create filters": next is "continue", "send_reply" or "error"
CreateFilters(rpc, mf) ==
    LET node == rpc.filter
        Go(next, filters) == [next |-> next, filters |-> filters, freed |-> FALSE]
        \* r: the result of the call that collected the filters
        Created(r) == Go(IF r.rc = 0 THEN "continue" ELSE "error", r.filters)
        \* r: the result of the compiler, which on failure has freed what filters still points to
        Compiled(r) == [next |-> IF r.rc = 0 THEN "continue" ELSE "error", filters |-> r.filters,
                        freed |-> r.freed]
    IN IF ~node.present THEN Created(NoFilterLoop(1, [rc |-> 0, filters |-> <<>>], mf))
       ELSE IF node.type = "xpath" /\ ~node.has_select THEN Go("error", <<>>)
       ELSE IF node.type # "xpath"
       THEN (IF node.value = "empty" THEN Go("send_reply", <<>>)
             ELSE IF node.value = "bad" THEN Go("error", <<>>)
             ELSE Compiled(opget_build_xpath_from_subtree_filter(node.xml, <<>>, mf)))
       ELSE (IF node.select = <<>> THEN Go("send_reply", <<>>)
             ELSE IF Fails(mf, "strdup", NULL) THEN Go("error", <<>>)
             ELSE Created(opget_xpath_add_filter(node.select, <<>>, mf, NULL)))

\* faulty variant: the leaf is not looked at
WithDefaults_Capability(rpc, nc_wd) == [rc |-> 0, nc_wd |-> nc_wd]

\* "get with-defaults mode": nc_wd is the mode of the capability
WithDefaults(rpc, nc_wd) ==
    IF rpc.wd = NULL THEN [rc |-> 0, nc_wd |-> nc_wd]
    ELSE IF rpc.wd = "report-all" THEN [rc |-> 0, nc_wd |-> "NC_WD_ALL"]
    ELSE IF rpc.wd = "report-all-tagged" THEN [rc |-> 0, nc_wd |-> "NC_WD_ALL_TAG"]
    ELSE IF rpc.wd = "trim" THEN [rc |-> 0, nc_wd |-> "NC_WD_TRIM"]
    ELSE IF rpc.wd = "explicit" THEN [rc |-> 0, nc_wd |-> "NC_WD_EXPLICIT"]
    ELSE [rc |-> -1, nc_wd |-> nc_wd]

\* faulty variant: the candidate datastore is never refreshed
NeedsRefresh_NotCandidate(sess) == sess.ds # "SR_DS_CANDIDATE"

\* "refresh sysrepo data", "update candidate to be the same as running"
NeedsRefresh(sess) ==
    sess.ds # "SR_DS_CANDIDATE" \/ "NP2S_CAND_CHANGED" \notin sess.flags

\* faulty variant: nc-notifications is read from the datastore
LocalModuleOf_NoNtf(xp) ==
    IF xp # <<>> /\ xp[1].pfx \in {"ietf-yang-library", "ietf-netconf-monitoring"} THEN xp[1].pfx ELSE NULL

\* the strncmp tests of the assembly loop: the local module the XPath starts with, or NULL
LocalModuleOf(xp) ==
    IF xp # <<>> /\ xp[1].pfx \in LocalModules THEN xp[1].pfx ELSE NULL

Dispatched(xp, to) == [xpath |-> xp, to |-> to]

RECURSIVE AssemblyLoop(_, _, _, _, _, _)
\* "create the data tree for the data reply"; st: root, calls, dispatch, rc
AssemblyLoop(filters, i, st, config_only, backend, env) ==
    IF i > Len(filters) \/ st.rc # 0 THEN st
    ELSE LET xp == filters[i]
             \* special case, we have these data locally
             Local(r) == [root |-> r.root, calls |-> st.calls,
                          dispatch |-> Append(st.dispatch, Dispatched(xp, "projector")),
                          rc |-> r.rc]
             \* create this subtree
             Built(r) == [root |-> r.root, calls |-> Append(st.calls, IterCall(xp, backend)),
                          dispatch |-> Append(st.dispatch, Dispatched(xp, "builder")),
                          rc |-> r.rc]
         IN AssemblyLoop(filters, i + 1,
                IF LocalModuleOf(xp) # NULL
                THEN (IF config_only # {}
                      THEN [st EXCEPT !.dispatch = Append(@, Dispatched(xp, "skip"))]
                      ELSE Local(opget_build_tree_from_data(
                                     st.root, LocalData(LocalModuleOf(xp)), xp)))
                ELSE Built(opget_build_subtree_from_sysrepo(
                               Visible(DsContent(backend.ds), backend.opts), st.root, xp,
                               env.iter)),
                config_only, backend, env)

\* lyd_validate with LYD_OPT_GETCONFIG or LYD_OPT_GET: status data are not allowed in the former
lyd_validate(root, config_only) ==
    IF config_only # {} /\ \E i \in 1..Len(root) : ~Schema(root[i].path).config THEN 1 ELSE 0

\* nc_server_reply_err(nc_err(NC_ERR_OP_FAILED, NC_ERR_TYPE_APP))
ErrorReply ==
    [type |-> "error", tag |-> "operation-failed", etype |-> "application", data |-> <<>>,
     wd |-> NULL]

\* the reply built from the errors of the backend session
op_build_err_sr(ereply, backend) == ErrorReply

\* nc_server_reply_data
DataReply(root, nc_wd) == [type |-> "data", tag |-> NULL, etype |-> NULL, data |-> root, wd |-> nc_wd]

\* no reply: the process has aborted
NoReply == [type |-> "none", tag |-> NULL, etype |-> NULL, data |-> <<>>, wd |-> NULL]

\* "build RPC Reply"
SendReply(root, config_only, nc_wd) ==
    IF lyd_validate(root, config_only) # 0 THEN ErrorReply
    ELSE DataReply(root, nc_wd)

(* the whole handler; nc_wd: the basic mode nc_server_get_capab_withdefaults *)
(* reports.  sel: the datastore and config_only resolved; sw: the session   *)
(* after the switch; cf: the filters created; wd: the with-defaults mode;   *)
(* calls: the backend calls made so far; asm: the assembled tree.           *)
op_get(rpc, sess, backend, nc_wd, env) ==
    LET \* frees: how often each string of filters has been handed to free() at the return:
        \* once by op_get (after the assembly or at the error label), and once more by
        \* the error path of the compiler when that has run
        Result(sw, cf, c, d, failed, reply) ==
            [sessions |-> sw.sessions, srs |-> sw.srs, filters |-> cf.filters, calls |-> c,
             dispatch |-> d, failed |-> failed,
             frees |-> [i \in 1..Len(cf.filters) |-> IF cf.freed THEN 2 ELSE 1],
             reply |-> reply]
        Sent(sw, cf, c, d, reply) ==
            Result(sw, cf, c, d, IF reply.type = "error" THEN "validate" ELSE "none", reply)
        Assembled(sel, sw, cf, wd, asm) ==
            IF asm.rc # 0 THEN Result(sw, cf, asm.calls, asm.dispatch, "assembly", ErrorReply)
            ELSE Sent(sw, cf, asm.calls, asm.dispatch,
                      SendReply(asm.root, sel.config_only, wd.nc_wd))
        Refreshed(sel, sw, cf, wd, calls) ==
            IF NeedsRefresh(sw.sessions) /\ env.refresh # "SR_ERR_OK"
            THEN Result(sw, cf, calls, <<>>, "refresh", op_build_err_sr(NULL, sw.srs))
            ELSE Assembled(sel, sw, cf, wd,
                           AssemblyLoop(cf.filters, 1,
                                        [root |-> <<>>, calls |-> calls, dispatch |-> <<>>,
                                         rc |-> 0],
                                        sel.config_only, sw.srs, env))
        Resolved(sel, sw, cf, wd) ==
            IF wd.rc # 0 THEN Result(sw, cf, sw.calls, <<>>, "with-defaults", ErrorReply)
            ELSE Refreshed(sel, sw, cf, wd,
                           sw.calls \o (IF NeedsRefresh(sw.sessions)
                                        THEN <<Call("sr_session_refresh")>> ELSE <<>>))
        Filtered(sel, sw, cf) ==
            IF cf.next = "error" THEN Result(sw, cf, sw.calls, <<>>, "filter", ErrorReply)
            ELSE IF cf.next = "send_reply"
            THEN Sent(sw, cf, sw.calls, <<>>, SendReply(<<>>, sel.config_only, nc_wd))
            ELSE Resolved(sel, sw, cf, WithDefaults(rpc, nc_wd))
        Switched(sel, sw) == Filtered(sel, sw, CreateFilters(rpc, env.mf))
        Selected(sel) ==
            Switched(sel, SwitchSession(sel.ds, sel.config_only, sess, backend, env))
    IN Selected(ResolveDs(rpc))

(* what the build can do with the result of op_get: a string freed twice is  *)
(* undefined behaviour, after which the reply is sent or the process aborts *)
Outcomes(r) ==
    IF \E i \in 1..Len(r.frees) : r.frees[i] > 1
    THEN {r, [r EXCEPT !.reply = NoReply]}
    ELSE {r}

(* op_validate; source "config" is an inline configuration, env.mf site     *)
(* "parse" a configuration lyd_parse_xml rejects, site "lyd_validate" one   *)
(* that parses and that lyd_validate rejects                                *)
op_validate(source, sess, backend, env) ==
    LET ds == IF source = "running" THEN "SR_DS_RUNNING"
              ELSE IF source = "startup" THEN "SR_DS_STARTUP"
              ELSE "SR_DS_CANDIDATE"
        switch == ds # sess.ds
        sessions2 == IF switch THEN [sess EXCEPT !.ds = ds] ELSE sess
        srs2 == IF switch /\ env.switch_ds = "SR_ERR_OK" THEN [backend EXCEPT !.ds = ds] ELSE backend
        calls == (IF switch THEN <<Call("sr_session_switch_ds")>> ELSE <<>>)
                 \o (IF ds # "SR_DS_CANDIDATE" THEN <<Call("sr_session_refresh")>> ELSE <<>>)
        Result(s, b, c, reply) == [sessions |-> s, srs |-> b, calls |-> c, reply |-> reply]
    IN IF source = "config"
       THEN IF env.mf.site = "parse" THEN Result(sess, backend, <<>>, "error")
            ELSE \* rc = lyd_validate(&config, ...); goto done: rc is not looked at
                 Result(sess, backend, <<>>, "ok")
       ELSE IF ds # "SR_DS_CANDIDATE" /\ env.refresh # "SR_ERR_OK"
       THEN Result(sessions2, srs2, calls, "error")
       ELSE Result(sessions2, srs2, Append(calls, Call("sr_validate")),
                   IF env.sr_validate # "SR_ERR_OK" THEN "error" ELSE "ok")

-----------------------------------------------------------------------------
(* One session serving <get>, <get-config> and <validate>.                  *)

NcmNs == "urn:ietf:params:xml:ns:yang:ietf-netconf-monitoring"
NtfNs == "urn:ietf:params:xml:ns:netmod:notification"

FilterNone == NoFilter
FilterEmptySubtree == SubtreeFilter(<<>>)
FilterEmptySelect == XPathFilter(<<>>)
FilterNoSelect == FilterNode("xpath", FALSE, <<>>, "empty", <<>>)
FilterXPath == XPathFilter(<<PlainStep("ex", "top")>>)
FilterSubtree == SubtreeFilter(<<Sel("top", "ex"), Sel("netconf-state", NcmNs)>>)
FilterYangLibrary ==
    XPathFilter(<<PlainStep("ietf-yang-library", "modules-state"), PlainStep(NULL, "module"),
                  PlainStep(NULL, "namespace")>>)
FilterNotifications == SubtreeFilter(<<Sel("netconf", NtfNs)>>)
FilterTwoRoots ==
    SubtreeFilter(<<Sel("top", "ex"),
                    Cont("interfaces", IfNs, <<Cont("interface", IfNs, <<Sel("name", IfNs)>>)>>)>>)

RpcFilters == {FilterNone, FilterEmptySubtree, FilterEmptySelect, FilterNoSelect, FilterXPath,
               FilterSubtree, FilterYangLibrary, FilterNotifications}

\* the RPC headers: <get> and <get-config> on each source
RpcHeads == {<<"get", NULL>>, <<"get-config", "running">>, <<"get-config", "startup">>,
             <<"get-config", "candidate">>}

\* the failures of the backend during a <get> or <get-config>
FailingEnvs ==
    { [EnvOk EXCEPT !.switch_ds = "SR_ERR_INTERNAL"],
      [EnvOk EXCEPT !.set_options = "SR_ERR_INTERNAL"],
      [EnvOk EXCEPT !.refresh = "SR_ERR_INTERNAL"],
      [EnvOk EXCEPT !.iter = [open |-> "SR_ERR_INTERNAL", limit |-> 0]],
      [EnvOk EXCEPT !.iter = [open |-> "SR_ERR_OK", limit |-> 1]] }

\* an allocation that fails while the filters are created
FailingAllocations ==
    { [EnvOk EXCEPT !.mf = [site |-> "node", name |-> "interfaces"]],
      [EnvOk EXCEPT !.mf = [site |-> "node", name |-> "interface"]],
      [EnvOk EXCEPT !.mf = [site |-> "add_filter", name |-> "top"]],
      [EnvOk EXCEPT !.mf = [site |-> "strdup", name |-> NULL]] }

(* the requests served: every header with every filter; the with-defaults  *)
(* leaf with the main kinds of filter; backend failures with filters that   *)
(* read the datastore; allocation failures while the filters are created    *)
GetInputs ==
    {[rpc |-> Rpc(h[1], h[2], f, NULL), env |-> EnvOk] : h \in RpcHeads, f \in RpcFilters}
    \cup {[rpc |-> Rpc(h[1], h[2], f, "trim"), env |-> EnvOk] :
             h \in {<<"get", NULL>>, <<"get-config", "candidate">>},
             f \in {FilterNone, FilterEmptySubtree, FilterEmptySelect, FilterXPath, FilterSubtree}}
    \cup {[rpc |-> Rpc("get", NULL, FilterXPath, wd), env |-> EnvOk] :
             wd \in {"report-all", "report-all-tagged", "explicit"}}
    \cup {[rpc |-> Rpc(h[1], h[2], f, NULL), env |-> e] :
             h \in {<<"get", NULL>>, <<"get-config", "running">>},
             f \in {FilterXPath, FilterSubtree}, e \in FailingEnvs}
    \cup {[rpc |-> Rpc(h[1], h[2], f, NULL), env |-> e] :
             h \in {<<"get", NULL>>, <<"get-config", "running">>},
             f \in {FilterXPath, FilterTwoRoots}, e \in {EnvOk} \cup FailingAllocations}

ValidateInputs ==
    {[source |-> src, env |-> e] :
        src \in {"running", "startup", "candidate", "config"},
        e \in {EnvOk, [EnvOk EXCEPT !.sr_validate = "SR_ERR_VALIDATION_FAILED"],
               [EnvOk EXCEPT !.switch_ds = "SR_ERR_INTERNAL"],
               [EnvOk EXCEPT !.mf = [site |-> "parse", name |-> NULL]],
               [EnvOk EXCEPT !.mf = [site |-> "lyd_validate", name |-> NULL]]}}

NoRpc == [rpc |-> Rpc("none", NULL, NoFilter, NULL), env |-> EnvOk,
          prior |-> [ds |-> "SR_DS_RUNNING", opts |-> {}, flags |-> {}],
          filters |-> <<>>, calls |-> <<>>, dispatch |-> <<>>, failed |-> "none", frees |-> <<>>,
          reply |-> ErrorReply]

(* a new session: on running, all data, candidate changed by an earlier     *)
(* edit or not; the server advertises basic-mode explicit                   *)
RpcInit ==
    /\ sessions \in {[ds |-> "SR_DS_RUNNING", opts |-> {}, flags |-> fl] :
                        fl \in {{}, {"NP2S_CAND_CHANGED"}}}
    /\ srs = [ds |-> sessions.ds, opts |-> sessions.opts]
    /\ nc_wd_dflt = "NC_WD_EXPLICIT"
    /\ last = NoRpc
    /\ OtherIdle("op")

\* the session serves a <get> or <get-config>
OpGet ==
    /\ last = NoRpc
    /\ \E in \in GetInputs :
          \E r \in Outcomes(op_get(in.rpc, sessions, srs, nc_wd_dflt, in.env)) :
             /\ sessions' = r.sessions
             /\ srs' = r.srs
             /\ last' = [rpc |-> in.rpc, env |-> in.env, prior |-> sessions, filters |-> r.filters,
                         calls |-> r.calls, dispatch |-> r.dispatch, failed |-> r.failed,
                         frees |-> r.frees, reply |-> r.reply]
    /\ UNCHANGED <<nc_wd_dflt, cf_vars, tb_vars, wd_vars, mt_vars, sv_vars>>

\* the session serves a <validate>
OpValidate ==
    /\ last = NoRpc
    /\ \E in \in ValidateInputs :
          \E r \in {op_validate(in.source, sessions, srs, in.env)} :
             /\ sessions' = r.sessions
             /\ srs' = r.srs
             /\ last' = [rpc |-> Rpc("validate", in.source, NoFilter, NULL), env |-> in.env,
                         prior |-> sessions, filters |-> <<>>, calls |-> r.calls,
                         dispatch |-> <<>>, failed |-> IF r.reply = "ok" THEN "none" ELSE "validate",
                         frees |-> <<>>,
                         reply |-> [NoReply EXCEPT !.type = r.reply]]
    /\ UNCHANGED <<nc_wd_dflt, cf_vars, tb_vars, wd_vars, mt_vars, sv_vars>>

\* the handler has returned its reply: the session is ready for the next RPC
Return ==
    /\ last # NoRpc
    /\ last' = NoRpc
    /\ UNCHANGED <<sessions, srs, nc_wd_dflt, cf_vars, tb_vars, wd_vars, mt_vars, sv_vars>>

RpcNext == OpGet \/ OpValidate \/ Return

SpecRpc == RpcInit /\ [][RpcNext]_vars

(* C28: after any sequence of <get>, <get-config> and <validate> on one      *)
(* session, the datastore and the config-only option recorded in the        *)
(* session are those in effect on the sysrepo session behind it, also when  *)
(* a call of sr_session_switch_ds or sr_session_set_options has failed.     *)
C28_SessionInSync ==
    sessions.ds = srs.ds /\ sessions.opts = srs.opts

(* C30: op_validate replies <ok/> only if the validation of the selected    *)
(* source succeeded: sr_validate returned success for running, startup or   *)
(* candidate, and the inline <config> was parsed and passed the schema      *)
(* validation; otherwise the reply is an rpc-error.                         *)
C30_OkOnlyIfValid ==
    (last.rpc.name = "validate" /\ last.reply.type = "ok")
    => IF last.rpc.source = "config"
       THEN last.env.mf.site \notin {"parse", "lyd_validate"}
       ELSE last.env.sr_validate = "SR_ERR_OK"

\* the last RPC was a <get> or <get-config>
IsGet == last.rpc.name \in {"get", "get-config"}

\* the datastore the last <get> or <get-config> names
NamedDs ==
    IF last.rpc.name = "get" \/ last.rpc.source = "running" THEN "SR_DS_RUNNING"
    ELSE IF last.rpc.source = "startup" THEN "SR_DS_STARTUP"
    ELSE "SR_DS_CANDIDATE"

\* the positions of the calls of that name in the log of the last RPC
CallIdx(name) == {i \in 1..Len(last.calls) : last.calls[i].call = name}

\* the top-level module of an XPath
TopModule(xp) == xp[1].pfx

StateModules == {"ietf-yang-library", "ietf-netconf-monitoring", "nc-notifications"}

(* C3: in the assembly loop every XPath whose top-level module is           *)
(* ietf-yang-library, ietf-netconf-monitoring or nc-notifications goes to   *)
(* the Local Tree Projector and never to the datastore, and is skipped (no  *)
(* projector call, no datastore call, no output) under config-only; every   *)
(* other XPath goes to the Subtree Builder.                                 *)
C3_Routing ==
    IsGet
    => /\ \A i \in 1..Len(last.dispatch) :
             /\ last.dispatch[i].xpath = last.filters[i]
             /\ last.dispatch[i].to =
                   (IF TopModule(last.filters[i]) \in StateModules
                    THEN (IF last.rpc.name = "get-config" THEN "skip" ELSE "projector")
                    ELSE "builder")
       /\ \A i \in CallIdx("sr_get_items_iter") : TopModule(last.calls[i].xpath) \notin StateModules
       /\ Cardinality(CallIdx("sr_get_items_iter"))
            = Cardinality({i \in 1..Len(last.dispatch) : last.dispatch[i].to = "builder"})
       /\ last.rpc.name = "get-config"
            => \A i \in 1..Len(last.reply.data) : last.reply.data[i].path[1].mod \notin StateModules
       /\ last.reply.type = "data" => Len(last.dispatch) = Len(last.filters)

\* a <get-config> skipped a monitoring XPath and read another from the datastore
C3_Witness ==
    /\ last.rpc.name = "get-config" /\ last.reply.type = "data"
    /\ \E i \in 1..Len(last.dispatch) :
          last.dispatch[i].to = "skip" /\ TopModule(last.dispatch[i].xpath) = "ietf-netconf-monitoring"
    /\ \E i \in 1..Len(last.dispatch) : last.dispatch[i].to = "builder"
    /\ last.reply.data # <<>>

(* C4: after the datastore-selection step the session's (selected           *)
(* datastore, config-only) pair is (running, false) for get and (the named  *)
(* datastore, true) for get-config; the backend switch is invoked if and    *)
(* only if the prior pair differed from that pair.                          *)
C4_SessionPair ==
    IsGet
    => LET resolved == <<NamedDs, last.rpc.name = "get-config">>
           prior == <<last.prior.ds, "SR_SESS_CONFIG_ONLY" \in last.prior.opts>>
       IN /\ <<sessions.ds, "SR_SESS_CONFIG_ONLY" \in sessions.opts>> = resolved
          /\ (CallIdx("sr_session_switch_ds") # {}) <=> (prior # resolved)

\* a <get> on a session that was on running in config-only mode: the switch was invoked
C4_Witness ==
    /\ last.rpc.name = "get"
    /\ last.prior.ds = "SR_DS_RUNNING" /\ "SR_SESS_CONFIG_ONLY" \in last.prior.opts
    /\ CallIdx("sr_session_switch_ds") # {}
    /\ sessions.opts = {}

\* the filter is an empty subtree filter or has an empty select
EmptyFilter(f) ==
    /\ f.present
    /\ \/ f.type = "xpath" /\ f.has_select /\ f.select = <<>>
       \/ f.type # "xpath" /\ f.value = "empty"

\* the filter is rejected before anything is read
BadFilter(f) == f.present /\ f.type = "xpath" /\ ~f.has_select

\* the refresh the datastore asks for: always but for a candidate that has changed
RefreshDue == NamedDs # "SR_DS_CANDIDATE" \/ "NP2S_CAND_CHANGED" \notin last.prior.flags

(* C5, amended: a <get>/<get-config> with no filter or a filter that is not *)
(* empty, whose filters are created without failure, refreshes a running or *)
(* startup datastore, and a candidate only if its candidate-changed flag is *)
(* clear, before any iterator is opened; with an empty filter, and when the *)
(* creation of the filters fails, nothing is refreshed and no iterator is   *)
(* opened.                                                                  *)
C5_Refresh ==
    IsGet
    => /\ BadFilter(last.rpc.filter) => last.failed = "filter"
       /\ (~EmptyFilter(last.rpc.filter) /\ last.failed # "filter")
            => Cardinality(CallIdx("sr_session_refresh")) = (IF RefreshDue THEN 1 ELSE 0)
       /\ (EmptyFilter(last.rpc.filter) \/ last.failed = "filter")
            => CallIdx("sr_session_refresh") = {} /\ CallIdx("sr_get_items_iter") = {}
       /\ \A i \in CallIdx("sr_get_items_iter") :
             RefreshDue => \E j \in CallIdx("sr_session_refresh") : j < i

\* a <get-config> of a changed candidate read the datastore without refresh
C5_Witness ==
    /\ last.rpc.name = "get-config" /\ NamedDs = "SR_DS_CANDIDATE"
    /\ "NP2S_CAND_CHANGED" \in last.prior.flags
    /\ CallIdx("sr_get_items_iter") # {}
    /\ CallIdx("sr_session_refresh") = {}
    /\ last.reply.type = "data"

(* C5 as stated: every answered <get>/<get-config> on running or startup    *)
(* performs a refresh whatever the filter, an empty one included, before    *)
(* any iterator is opened; on candidate only if the flag is clear.          *)
C5_AsStated ==
    (IsGet /\ last.reply.type = "data")
    => /\ NamedDs # "SR_DS_CANDIDATE"
            => /\ CallIdx("sr_session_refresh") # {}
               /\ \A i \in CallIdx("sr_get_items_iter") :
                     \E j \in CallIdx("sr_session_refresh") : j < i
       /\ (NamedDs = "SR_DS_CANDIDATE" /\ CallIdx("sr_session_refresh") # {})
            => "NP2S_CAND_CHANGED" \notin last.prior.flags

\* the mode a with-defaults leaf names
LeafMode(wd) ==
    IF wd = "report-all" THEN "NC_WD_ALL"
    ELSE IF wd = "report-all-tagged" THEN "NC_WD_ALL_TAG"
    ELSE IF wd = "trim" THEN "NC_WD_TRIM"
    ELSE "NC_WD_EXPLICIT"

(* C6, amended: the mode attached to a successful reply is the mode named   *)
(* by the with-defaults leaf when the leaf is present and the filter is     *)
(* absent, an XPath or a subtree that is not empty; it is the advertised    *)
(* default mode when the leaf is absent, and also whenever the filter is    *)
(* empty.                                                                   *)
C6_WithDefaults ==
    (IsGet /\ last.reply.type = "data")
    => last.reply.wd = (IF last.rpc.wd # NULL /\ ~EmptyFilter(last.rpc.filter)
                        THEN LeafMode(last.rpc.wd) ELSE nc_wd_dflt)

\* a reply to a subtree filter with the leaf trim carries trim
C6_Witness ==
    /\ IsGet /\ last.reply.type = "data"
    /\ last.rpc.wd = "trim" /\ last.rpc.filter = FilterSubtree
    /\ last.reply.wd = "NC_WD_TRIM" /\ nc_wd_dflt # "NC_WD_TRIM"

(* C6 as stated: the mode of every successful reply is the one the leaf     *)
(* names whenever the leaf is present, for every kind of filter, the empty  *)
(* one included, and the advertised default mode only when it is absent.    *)
C6_AsStated ==
    (IsGet /\ last.reply.type = "data")
    => last.reply.wd = (IF last.rpc.wd # NULL THEN LeafMode(last.rpc.wd) ELSE nc_wd_dflt)

(* C9: config-only purity.  For every <get-config> the backend session is   *)
(* in config-only mode whenever an iterator is opened, no local state tree  *)
(* contributes a node, and no config=false node is in the reply.            *)
C9_ConfigOnlyPurity ==
    last.rpc.name = "get-config"
    => /\ \A i \in CallIdx("sr_get_items_iter") : last.calls[i].config_only
       /\ \A i \in 1..Len(last.dispatch) : last.dispatch[i].to # "projector"
       /\ \A i \in 1..Len(last.reply.data) : Schema(last.reply.data[i].path).config

\* the loaded modules with a top-level schema node that is no grouping, RPC or notification
DataModules ==
    SelectSeq(Modules, LAMBDA m : \E i \in 1..Len(ModuleDataNodetypes(m.name)) :
                                     /\ ModuleDataNodetypes(m.name)[i] # "LYS_GROUPING"
                                     /\ ModuleDataNodetypes(m.name)[i] # "LYS_RPC"
                                     /\ ModuleDataNodetypes(m.name)[i] # "LYS_NOTIF")

(* C13: a <get> or <get-config> without <filter> compiles to exactly one    *)
(* XPath "/M:*" for each loaded module M that has a top-level schema node   *)
(* that is no grouping, RPC or notification, in module enumeration order,   *)
(* and to no XPath for any other module.                                    *)
C13_NoFilter ==
    (IsGet /\ ~last.rpc.filter.present /\ last.env.mf = NoFail)
    => /\ Len(last.filters) = Len(DataModules)
       /\ \A i \in 1..Len(DataModules) :
             Render(last.filters[i]) = "/" \o DataModules[i].name \o ":*"

\* a request without filter was served while modules without data definitions are loaded
C13_Witness ==
    /\ IsGet /\ ~last.rpc.filter.present /\ last.env.mf = NoFail
    /\ Len(last.filters) >= 2 /\ Len(last.filters) < Len(Modules)
    /\ last.reply.type = "data"

\* the last request carries a filter of type "xpath" with a select attribute
HasSelect ==
    IsGet /\ last.rpc.filter.present /\ last.rpc.filter.type = "xpath" /\ last.rpc.filter.has_select

(* C14: for a filter of type "xpath" with a non-empty select S the compiled *)
(* filter is exactly the list [S]; with an empty select the reply is a      *)
(* success with empty data and no datastore iterator is opened.             *)
C14_XPathFilter ==
    (HasSelect /\ last.env.mf = NoFail)
    => IF last.rpc.filter.select # <<>>
       THEN last.filters = <<last.rpc.filter.select>>
       ELSE /\ last.filters = <<>>
            /\ last.reply.type = "data" /\ last.reply.data = <<>>
            /\ CallIdx("sr_get_items_iter") = {}

\* a request with a non-empty select has been answered from the datastore
C14_Witness ==
    /\ HasSelect /\ last.env = EnvOk /\ last.rpc.filter.select # <<>>
    /\ Len(last.filters) = 1 /\ CallIdx("sr_get_items_iter") # {}
    /\ last.reply.type = "data"

\* the filter of the last request cannot be parsed
ParseFails ==
    LET f == last.rpc.filter
    IN f.present /\ (IF f.type = "xpath" THEN ~f.has_select ELSE f.value = "bad")

\* an allocation has failed while the filters of the last request were created
CompilationFails ==
    last.env.mf # NoFail /\ CreateFilters(last.rpc, last.env.mf) # CreateFilters(last.rpc, NoFail)

\* the refresh of the datastore was asked for and has failed
RefreshFails == CallIdx("sr_session_refresh") # {} /\ last.env.refresh # "SR_ERR_OK"

\* the values the backend holds for the iterator of call i
IterValues(i) ==
    sr_get_items_iter(Visible(DsContent(srs.ds),
                              IF last.calls[i].config_only THEN {"SR_SESS_CONFIG_ONLY"} ELSE {}),
                      last.calls[i].xpath)

\* the backend has reported an error to an iterator, at its open or while values were left
AssemblyFails ==
    \E i \in CallIdx("sr_get_items_iter") :
        \/ last.env.iter.open \notin {"SR_ERR_OK", "SR_ERR_UNKNOWN_MODEL", "SR_ERR_NOT_FOUND"}
        \/ last.env.iter.open = "SR_ERR_OK" /\ last.env.iter.limit > 0
           /\ last.env.iter.limit < Len(IterValues(i))

(* C17: whenever a step of op_get fails (parsing or compilation of the      *)
(* filter, the refresh, the assembly for an XPath, a validation) the reply  *)
(* is an rpc-error with error-tag operation-failed and error-type           *)
(* application, and it holds no part of the assembled tree.                 *)
C17_ErrorReply ==
    (IsGet /\ (ParseFails \/ CompilationFails \/ RefreshFails \/ AssemblyFails
               \/ last.failed # "none"))
    => /\ last.reply.type = "error"
       /\ last.reply.tag = "operation-failed" /\ last.reply.etype = "application"
       /\ last.reply.data = <<>>

(* C20: on every path through op_get each compiled XPath string is released *)
(* exactly once: none is still allocated at the return, none is released    *)
(* twice.                                                                   *)
C20_ReleasedOnce ==
    IsGet => \A i \in 1..Len(last.frees) : last.frees[i] = 1

-----------------------------------------------------------------------------
(* Two worker threads serve RPCs of one session.  Each statement of op_get  *)
(* on the session state or the datastore handle is one step of its worker;  *)
(* the RPC mutex of the session is taken by the dispatcher around op_get.   *)

Workers == {1, 2}

\* faulty variant: the mutex is handed out while another worker holds it
pthread_mutex_lock_Unguarded(holder) == TRUE

\* pthread_mutex_lock(session->opts.server.rpc_lock) returns once the mutex is free
pthread_mutex_lock(holder) == holder = 0

Worker(pc, rpc) == [pc |-> pc, rpc |-> rpc]

\* a step on the session state or the datastore handle, as traced
Traced(w, op) == [w |-> w, op |-> op, ds |-> srs.ds, locked |-> rpc_lock = w]

WorkersInit ==
    /\ sessions = [ds |-> "SR_DS_RUNNING", opts |-> {}, flags |-> {}]
    /\ srs = [ds |-> sessions.ds, opts |-> sessions.opts]
    /\ workers = [w \in Workers |-> Worker("idle", NoRpc.rpc)]
    /\ rpc_lock = 0
    /\ trace = <<>>
    /\ OtherIdle("mt")

\* an RPC of the session is dispatched to an idle worker
Dispatch(w) ==
    /\ workers[w].pc = "idle"
    /\ \E h \in RpcHeads :
          workers' = [workers EXCEPT ![w] = Worker("lock", Rpc(h[1], h[2], FilterXPath, NULL))]
    /\ UNCHANGED <<rpc_lock, trace, sessions, srs, nc_wd_dflt, last, cf_vars, tb_vars, wd_vars, sv_vars>>

\* the worker takes the RPC mutex before it calls op_get
Acquire(w) ==
    /\ workers[w].pc = "lock"
    /\ pthread_mutex_lock(rpc_lock)
    /\ rpc_lock' = w
    /\ workers' = [workers EXCEPT ![w].pc = "select"]
    /\ UNCHANGED <<trace, sessions, srs, nc_wd_dflt, last, cf_vars, tb_vars, wd_vars, sv_vars>>

\* "if (ds != sessions->ds || (sessions->opts & SR_SESS_CONFIG_ONLY) != config_only)"
Select(w) ==
    /\ workers[w].pc = "select"
    /\ \E sel \in {ResolveDs(workers[w].rpc)} :
          workers' = [workers EXCEPT ![w].pc = IF NeedsSwitch(sel.ds, sel.config_only, sessions)
                                               THEN "switch_ds" ELSE "iterate"]
    /\ trace' = Append(trace, Traced(w, "select"))
    /\ UNCHANGED <<rpc_lock, sessions, srs, nc_wd_dflt, last, cf_vars, tb_vars, wd_vars, sv_vars>>

\* "update sysrepo session datastore"
SwitchDs(w) ==
    /\ workers[w].pc = "switch_ds"
    /\ \E sel \in {ResolveDs(workers[w].rpc)} :
          /\ srs' = [srs EXCEPT !.ds = sel.ds]
          /\ sessions' = [sessions EXCEPT !.ds = sel.ds]
    /\ workers' = [workers EXCEPT ![w].pc = "set_options"]
    /\ trace' = Append(trace, Traced(w, "sr_session_switch_ds"))
    /\ UNCHANGED <<rpc_lock, nc_wd_dflt, last, cf_vars, tb_vars, wd_vars, sv_vars>>

\* "update sysrepo session config"
SetOptions(w) ==
    /\ workers[w].pc = "set_options"
    /\ \E sel \in {ResolveDs(workers[w].rpc)} :
          /\ srs' = [srs EXCEPT !.opts = sel.config_only]
          /\ sessions' = [sessions EXCEPT !.opts = sel.config_only]
    /\ workers' = [workers EXCEPT ![w].pc = "iterate"]
    /\ trace' = Append(trace, Traced(w, "sr_session_set_options"))
    /\ UNCHANGED <<rpc_lock, nc_wd_dflt, last, cf_vars, tb_vars, wd_vars, sv_vars>>

\* "create this subtree": the iterator calls on sessions->srs
Iterate(w) ==
    /\ workers[w].pc = "iterate"
    /\ workers' = [workers EXCEPT ![w].pc = "unlock"]
    /\ trace' = Append(trace, Traced(w, "sr_get_items_iter"))
    /\ UNCHANGED <<rpc_lock, sessions, srs, nc_wd_dflt, last, cf_vars, tb_vars, wd_vars, sv_vars>>

\* op_get has returned its reply: the worker gives the mutex back
Release(w) ==
    /\ workers[w].pc = "unlock"
    /\ rpc_lock' = IF rpc_lock = w THEN 0 ELSE rpc_lock
    /\ workers' = [workers EXCEPT ![w].pc = "done"]
    /\ UNCHANGED <<trace, sessions, srs, nc_wd_dflt, last, cf_vars, tb_vars, wd_vars, sv_vars>>

WorkersNext ==
    \E w \in Workers :
        \/ Dispatch(w)
        \/ Acquire(w)
        \/ Select(w)
        \/ SwitchDs(w)
        \/ SetOptions(w)
        \/ Iterate(w)
        \/ Release(w)

SpecWorkers == WorkersInit /\ [][WorkersNext]_vars

\* the worker is between the first and the last step of its RPC
InRpc(w) == workers[w].pc \in {"select", "switch_ds", "set_options", "iterate", "unlock"}

(* C21: the session-state mutations and iterator calls of two RPCs that are *)
(* served by different workers on one session never interleave: the steps   *)
(* of one RPC are consecutive in the trace, each is taken while its worker  *)
(* holds the RPC lock, and no two workers are inside an RPC at once.        *)
C21_Serialized ==
    /\ \A w \in Workers : InRpc(w) => rpc_lock = w
    /\ \A i \in 1..Len(trace) : trace[i].locked
    /\ \A i \in 1..Len(trace), k \in 1..Len(trace) :
          (i < k /\ trace[i].w = trace[k].w) => \A j \in i..k : trace[j].w = trace[i].w

\* both workers have served an RPC that switched the session, one after the other
C21_Witness ==
    /\ \A w \in Workers : workers[w].pc = "done"
    /\ \A w \in Workers : \E i \in 1..Len(trace) :
          trace[i].w = w /\ trace[i].op = "sr_session_switch_ds"
    /\ \E w \in Workers : workers[w].rpc.source = "candidate"
    /\ rpc_lock = 0

-----------------------------------------------------------------------------
(* Value conversion between tree leaves and sysrepo values: op_set_srval    *)
(* and op_get_srval (operations.c).  A string pointer is followed together  *)
(* with the owner of the memory behind it: the data tree, the caller, or a  *)
(* block allocated by the call.                                             *)

\* union lyd_val of a leaf, by the members op_set_srval reads
LydVal(str, num, bln, bit, ident) ==
    [str |-> str, num |-> num, bln |-> bln, bit |-> bit, ident |-> ident]

NoIdent == [module |-> NULL, name |-> NULL]

RECURSIVE JoinStr(_, _)
\* the strings of a sequence, separated by sep
JoinStr(strs, sep) ==
    IF strs = <<>> THEN ""
    ELSE IF Len(strs) = 1 THEN strs[1]
    ELSE strs[1] \o sep \o JoinStr(Tail(strs), sep)

\* leaf->value_str as libyang keeps it: the canonical form of the value
Canonical(base, module, value) ==
    IF base = "LY_TYPE_BOOL" THEN (IF value.bln THEN "true" ELSE "false")
    ELSE IF base = "LY_TYPE_BITS" THEN JoinStr(SelectSeq(value.bit, LAMBDA b : b # NULL), " ")
    ELSE IF base = "LY_TYPE_EMPTY" THEN ""
    ELSE IF base = "LY_TYPE_IDENT"
         THEN (IF value.ident.module = module THEN value.ident.name
               ELSE value.ident.module \o ":" \o value.ident.name)
    ELSE IF base \in {"LY_TYPE_STRING", "LY_TYPE_BINARY", "LY_TYPE_ENUM", "LY_TYPE_INST",
                      "LY_TYPE_LEAFREF", "LY_TYPE_UNION"} THEN value.str
    ELSE ToString(value.num)

\* a data node as op_set_srval sees it
TreeNode(nodetype, presence, base, value) ==
    [nodetype |-> nodetype, presence |-> presence, base |-> base, module |-> "ex",
     value |-> value, value_str |-> IF nodetype = "LYS_LEAF" THEN Canonical(base, "ex", value) ELSE NULL]

LeafNode(base, value) == TreeNode("LYS_LEAF", FALSE, base, value)

NumVal(n) == LydVal(NULL, n, FALSE, <<>>, NoIdent)
StrVal(s) == LydVal(s, 0, FALSE, <<>>, NoIdent)

\* the sysrepo type of each integer base type
IntTypes ==
    [LY_TYPE_INT8 |-> "SR_INT8_T", LY_TYPE_UINT8 |-> "SR_UINT8_T",
     LY_TYPE_INT16 |-> "SR_INT16_T", LY_TYPE_UINT16 |-> "SR_UINT16_T",
     LY_TYPE_INT32 |-> "SR_INT32_T", LY_TYPE_UINT32 |-> "SR_UINT32_T",
     LY_TYPE_INT64 |-> "SR_INT64_T", LY_TYPE_UINT64 |-> "SR_UINT64_T"]

\* values of each integer type: its least value, zero, and a large one
IntValues(base) ==
    IF base = "LY_TYPE_INT8" THEN {-128, 0, 127}
    ELSE IF base = "LY_TYPE_UINT8" THEN {0, 255}
    ELSE IF base = "LY_TYPE_INT16" THEN {-32768, 0, 32767}
    ELSE IF base = "LY_TYPE_UINT16" THEN {0, 65535}
    ELSE IF base \in {"LY_TYPE_INT32", "LY_TYPE_INT64"} THEN {-2147483647, 0, 2147483647}
    ELSE {0, 2147483647}

\* the bits of the schema type, by position, and the values of a bits leaf:
\* value.bit[i] is the bit at position i when it is set, else NULL
BitNames == <<"b0", "b1", "b2">>
BitValues == {[i \in 1..Len(BitNames) |-> IF i \in S THEN BitNames[i] ELSE NULL] :
                 S \in SUBSET (1..Len(BitNames))}

ConvNodes ==
    {TreeNode("LYS_CONTAINER", p, NULL, NumVal(0)) : p \in BOOLEAN}
    \cup {TreeNode("LYS_LIST", FALSE, NULL, NumVal(0)), TreeNode("LYS_ANYXML", FALSE, NULL, NumVal(0))}
    \cup {LeafNode("LY_TYPE_BOOL", LydVal(NULL, 0, b, <<>>, NoIdent)) : b \in BOOLEAN}
    \cup UNION {{LeafNode(base, NumVal(n)) : n \in IntValues(base)} : base \in DOMAIN IntTypes}
    \cup {LeafNode("LY_TYPE_STRING", StrVal(s)) : s \in {"", "eth0", "a b"}}
    \cup {LeafNode("LY_TYPE_BINARY", StrVal(s)) : s \in {"", "YQ=="}}
    \cup {LeafNode("LY_TYPE_BITS", LydVal(NULL, 0, FALSE, b, NoIdent)) : b \in BitValues}
    \cup {LeafNode("LY_TYPE_ENUM", StrVal(s)) : s \in {"up", "down"}}
    \cup {LeafNode("LY_TYPE_IDENT", LydVal(NULL, 0, FALSE, <<>>, [module |-> m, name |-> "eth"])) :
             m \in {"ex", "iana-if-type"}}
    \cup {LeafNode("LY_TYPE_INST", StrVal("/ex:top/leaf")), LeafNode("LY_TYPE_EMPTY", NumVal(0)),
          LeafNode("LY_TYPE_LEAFREF", StrVal("eth0")), LeafNode("LY_TYPE_UNION", StrVal("1"))}

\* the allocation of the call that fails (malloc, calloc or strdup returning NULL), if any
ConvFailures == {"none", "xpath", "value"}

\* (dup && str) ? strdup(str) : str
DupStr(str, dup, owner, fails) ==
    IF dup /\ str # NULL
    THEN (IF fails THEN [str |-> NULL, owner |-> "none"] ELSE [str |-> str, owner |-> "heap"])
    ELSE [str |-> str, owner |-> IF str = NULL THEN "none" ELSE owner]

RECURSIVE CopyBitsLoop(_, _, _)
\* the second loop of copy_bits: name and a space for every bit that is set
CopyBitsLoop(bits, i, bits_str) ==
    IF i > Len(bits) THEN bits_str
    ELSE CopyBitsLoop(bits, i + 1,
                      IF bits[i] # NULL THEN bits_str \o <<bits[i], " ">> ELSE bits_str)

\* copy_bits: the names of the set bits in a block of their own, the last space cut off
copy_bits(leaf, fails) ==
    IF fails THEN [rc |-> -1, dest |-> [str |-> NULL, owner |-> "none"]]
    ELSE LET bits_str == CopyBitsLoop(leaf.value.bit, 1, <<>>)
             cut == IF bits_str # <<>> THEN SubSeq(bits_str, 1, Len(bits_str) - 1) ELSE bits_str
         IN [rc |-> 0, dest |-> [str |-> JoinStr(cut, ""), owner |-> "heap"]]

(* the result of op_set_srval: val->type and val->data as an SrData, the    *)
(* owners of val->xpath and of the string in val->data, and whether         *)
(* *val_buf is that string (it is NULL otherwise)                           *)
Converted(rc, val, xpath, data_owner, val_buf) ==
    [rc |-> rc, val |-> val, xpath |-> xpath, data_owner |-> data_owner,
     val_buf |-> val_buf, back |-> "<unset>"]

NotConverted == Converted(1, SrNone("SR_UNKNOWN_T"), [str |-> NULL, owner |-> "none"], "none", FALSE)

\* the string cases of op_set_srval: NULL is an error
SetString(type, p, xpath) ==
    Converted(IF p.str = NULL THEN -1 ELSE 0, SrData(type, p.str, 0, FALSE), xpath, p.owner, FALSE)

op_set_srval(node, path, dup, mf) ==
    LET xpath == DupStr(path, dup, "caller", mf = "xpath")
        Typed(val) == Converted(0, val, xpath, "none", FALSE)
        base == node.base
    IN IF node.nodetype = "LYS_CONTAINER"
       THEN Typed(SrNone(IF node.presence THEN "SR_CONTAINER_PRESENCE_T" ELSE "SR_CONTAINER_T"))
       ELSE IF node.nodetype = "LYS_LIST" THEN Typed(SrNone("SR_LIST_T"))
       ELSE IF node.nodetype \notin {"LYS_LEAF", "LYS_LEAFLIST"} THEN Typed(SrNone("SR_UNKNOWN_T"))
       ELSE IF base = "LY_TYPE_BINARY"
            THEN SetString("SR_BINARY_T", DupStr(node.value.str, dup, "tree", mf = "value"), xpath)
       ELSE IF base = "LY_TYPE_BITS"
            THEN LET r == copy_bits(node, mf = "value")
                 IN Converted(r.rc, SrData("SR_BITS_T", r.dest.str, 0, FALSE), xpath,
                              r.dest.owner, FALSE)
       ELSE IF base = "LY_TYPE_BOOL" THEN Typed(SrBool(node.value.bln))
       ELSE IF base = "LY_TYPE_EMPTY" THEN Typed(SrNone("SR_LEAF_EMPTY_T"))
       ELSE IF base = "LY_TYPE_ENUM"
            THEN SetString("SR_ENUM_T", DupStr(node.value.str, dup, "tree", mf = "value"), xpath)
       ELSE IF base = "LY_TYPE_IDENT"
            THEN IF node.value.ident.module = node.module
                 THEN SetString("SR_IDENTITYREF_T",
                                DupStr(node.value.ident.name, dup, "tree", mf = "value"), xpath)
                 ELSE IF mf = "value"
                 THEN Converted(-1, SrNone("SR_IDENTITYREF_T"), xpath, "none", FALSE)
                 ELSE Converted(0, SrData("SR_IDENTITYREF_T",
                                          node.value.ident.module \o ":" \o node.value.ident.name,
                                          0, FALSE),
                                xpath, "heap", ~dup)
       ELSE IF base = "LY_TYPE_INST" THEN Typed(SrNone("SR_INSTANCEID_T"))
       ELSE IF base = "LY_TYPE_STRING"
            THEN SetString("SR_STRING_T", DupStr(node.value.str, dup, "tree", mf = "value"), xpath)
       ELSE IF base \in DOMAIN IntTypes
            THEN Typed(SrData(IntTypes[base], NULL, node.value.num, FALSE))
       ELSE \* LY_LEAFREF, LY_DERIVED, LY_UNION
            Typed(SrNone("SR_UNKNOWN_T"))

ConvertInit ==
    /\ sv_in \in [node : ConvNodes, path : {"/ex:top/leaf", NULL}, dup : BOOLEAN, mf : ConvFailures]
    /\ sv_out = NotConverted
    /\ OtherIdle("sv")

\* one call of op_set_srval
SetSrval ==
    /\ sv_out = NotConverted
    /\ sv_out' = op_set_srval(sv_in.node, sv_in.path, sv_in.dup, sv_in.mf)
    /\ UNCHANGED <<sv_in, cf_vars, tb_vars, wd_vars, op_vars, mt_vars>>

\* op_get_srval on the value op_set_srval produced
GetSrval ==
    /\ sv_out.rc = 0
    /\ sv_out.back = "<unset>"
    /\ sv_out' = [sv_out EXCEPT !.back = op_get_srval(sv_out.val)]
    /\ UNCHANGED <<sv_in, cf_vars, tb_vars, wd_vars, op_vars, mt_vars>>

ConvertNext == SetSrval \/ GetSrval

SpecConvert == ConvertInit /\ [][ConvertNext]_vars

\* the leaf types the round trip is stated for
RoundTripTypes ==
    DOMAIN IntTypes \cup {"LY_TYPE_BOOL", "LY_TYPE_STRING", "LY_TYPE_BINARY", "LY_TYPE_BITS",
                          "LY_TYPE_ENUM", "LY_TYPE_IDENT", "LY_TYPE_INST", "LY_TYPE_EMPTY"}

(* C25: op_set_srval followed by op_get_srval is the identity on leaf       *)
(* values: for a leaf of one of the listed types the string given back is   *)
(* the leaf's canonical string value, and no value for an empty leaf.       *)
C25_RoundTrip ==
    (sv_out.rc = 0 /\ sv_out.back # "<unset>"
     /\ sv_in.node.nodetype = "LYS_LEAF" /\ sv_in.node.base \in RoundTripTypes)
    => sv_out.back = IF sv_in.node.base = "LY_TYPE_EMPTY" THEN NULL ELSE sv_in.node.value_str

(* C26: with duplicate=false the only allocation op_set_srval leaves to the *)
(* caller is the buffer reported through val_buf: the path is the caller's  *)
(* own and a string in the value is owned by the tree or is the val_buf     *)
(* buffer; with duplicate=true the path and every string in the value are   *)
(* fresh copies.                                                            *)
C26_Ownership ==
    (sv_out.rc = 0)
    => IF sv_in.dup
       THEN sv_out.xpath.owner \in {"heap", "none"} /\ sv_out.data_owner \in {"heap", "none"}
       ELSE /\ sv_out.xpath.owner \in {"caller", "none"}
            /\ (sv_out.data_owner = "heap" => sv_out.val_buf)
            /\ (sv_out.val_buf => sv_out.data_owner = "heap")

====
